---- MODULE Spec2Model ----
(***************************************************************************)
(* Verification model of the Noe runtime (noe-protocol/noe).               *)
(*                                                                         *)
(* Part A models the strict-mode evaluator (noe/noe_parser.py,             *)
(* NoeEvaluator): a chain is parsed into a tree that Arpeggio's            *)
(* PTNodeVisitor walks bottom-up, so the tree is kept as its post-order    *)
(* node sequence and each visitor method is one action working on a value  *)
(* stack.                                                                  *)
(***************************************************************************)
EXTENDS Integers, Sequences, FiniteSets, TLC

(***************************************************************************)
(* Values produced by the visitor.  Every value is a record with the same  *)
(* fields; `kind` tells which Python shape it stands for:                  *)
(*   bool           True / False                                           *)
(*   undefined_str  the string "undefined"                                 *)
(*   undefined      the dict {"domain": "undefined", ...}                  *)
(*   error          the dict {"domain": "error", "code": code, ...}        *)
(*   literal        the dict {"domain": "literal", "key", "value"};        *)
(*                  pay is the kind of the wrapped context value           *)
(*   str            a string or other non-primitive opaque payload; pay   *)
(*                  says whether it is a literal's value or its key        *)
(*   actref         a context-supplied dict with "type": "action"          *)
(*   action         an action dict built by visit_action_event; target is  *)
(*                  the one-element sequence holding its target, hash its  *)
(*                  action_hash (empty while not finalized)                *)
(*   list           a Python list                                          *)
(***************************************************************************)
Blank ==
    [kind |-> "", b |-> FALSE, code |-> "", key |-> "", pay |-> "",
     verb |-> "", hash |-> <<>>, target |-> <<>>, items |-> <<>>]

VBool(x) ==
    [Blank EXCEPT !.kind = "bool", !.b = x]

UNDEF_STR ==
    [Blank EXCEPT !.kind = "undefined_str"]

UNDEF_OBJ ==
    [Blank EXCEPT !.kind = "undefined"]

VErr(c) ==
    [Blank EXCEPT !.kind = "error", !.code = c]

VLit(k, p) ==
    [Blank EXCEPT !.kind = "literal", !.key = k, !.pay = p]

VStr(k, p) ==
    [Blank EXCEPT !.kind = "str", !.key = k, !.pay = p]

VActRef(k) ==
    [Blank EXCEPT !.kind = "actref", !.key = k]

VList(xs) ==
    [Blank EXCEPT !.kind = "list", !.items = xs]

(***************************************************************************)
(* Contexts.  literals maps a key to the kind of its value ("absent" when  *)
(* the key is not in C.literals); knowledge maps a key to "true"/"false"   *)
(* or "absent" (C.modal.knowledge); stale says that the temporal shard     *)
(* makes the context stale, audit that the audit subsystem is present.     *)
(* The other subsystems are present and the context holds no evidence.     *)
(***************************************************************************)
Keys ==
    {"ok", "no", "go", "act", "gone"}

CtxA ==
    [literals  |-> [k \in Keys |->
                      CASE k = "ok"  -> "true"
                        [] k = "no"  -> "false"
                        [] k = "go"  -> "str"
                        [] k = "act" -> "actref"
                        [] OTHER     -> "absent"],
     knowledge |-> [k \in Keys |->
                      CASE k = "ok" -> "true"
                        [] k = "no" -> "false"
                        [] OTHER    -> "absent"],
     stale |-> FALSE, audit |-> TRUE, stale_key |-> FALSE]

CtxB ==
    [literals  |-> [k \in Keys |->
                      CASE k = "ok"  -> "false"
                        [] k = "go"  -> "actref"
                        [] k = "act" -> "str"
                        [] OTHER     -> "absent"],
     knowledge |-> [k \in Keys |->
                      CASE k = "ok"   -> "false"
                        [] k = "gone" -> "true"
                        [] OTHER      -> "absent"],
     stale |-> FALSE, audit |-> TRUE, stale_key |-> FALSE]

Contexts ==
    {CtxA, CtxB}

(***************************************************************************)
(* Chains.  A chain is kept as the pair of what the two consumers see:     *)
(* toks, the operator tokens in text order (tokenize.extract_ops), lits,   *)
(* the literal keys it mentions, and prog, the post-order node sequence of *)
(* its parse tree (grammar, noe_parser.py 497-637).  clen is the length of *)
(* the condition's part of prog when the expression is a guard, else 0.    *)
(***************************************************************************)
Node(o, a, k) ==
    [op |-> o, arg |-> a, key |-> k]

literal(k) ==
    [toks |-> <<>>, lits |-> {k}, clen |-> 0,
     prog |-> <<Node("literal", "", k)>>]

bool_literal(x) ==
    [toks |-> <<>>, lits |-> {}, clen |-> 0,
     prog |-> <<Node("bool_literal", x, "")>>]

OperandKey(e) ==
    IF Len(e.prog) = 1 /\ e.prog[1].op = "literal" THEN e.prog[1].key ELSE ""

unary(o, e) ==
    [toks |-> <<o>> \o e.toks, lits |-> e.lits, clen |-> 0,
     prog |-> e.prog \o <<Node("unary", o, OperandKey(e))>>]

action_event(v, e) ==
    [toks |-> <<v>> \o e.toks, lits |-> e.lits, clen |-> 0,
     prog |-> e.prog \o <<Node("action_event", v, "")>>]

conjunction(l, r) ==
    [toks |-> l.toks \o <<"an">> \o r.toks, lits |-> l.lits \cup r.lits, clen |-> 0,
     prog |-> l.prog \o r.prog \o <<Node("conjunction", "an", "")>>]

disjunction(l, r) ==
    [toks |-> l.toks \o <<"ur">> \o r.toks, lits |-> l.lits \cup r.lits, clen |-> 0,
     prog |-> l.prog \o r.prog \o <<Node("disjunction", "ur", "")>>]

conditional(c, q) ==
    [toks |-> c.toks \o <<"khi", "sek">> \o q.toks \o <<"sek">>,
     lits |-> c.lits \cup q.lits, clen |-> Len(c.prog),
     prog |-> c.prog \o q.prog
              \o <<Node("sek_scope", "", ""), Node("conditional", "khi", "")>>]

chain(e) ==
    [toks |-> e.toks, lits |-> e.lits, clen |-> e.clen,
     prog |-> e.prog \o <<Node("chain", "", "")>>]

(***************************************************************************)
(* Bounded chain population, built along the grammar:                      *)
(*   atom < action_event < unary < conjunction/disjunction < conditional.  *)
(***************************************************************************)
Atoms ==
    {literal(k) : k \in Keys} \cup {bool_literal(x) : x \in {"true", "false", "undefined"}}

ActionEvents ==
    {action_event(v, a) : v \in {"mek", "men"}, a \in Atoms}
      \cup {action_event("mek", action_event("mek", literal(k))) : k \in {"go", "gone"}}

Primaries ==
    Atoms \cup ActionEvents

Unaries ==
    Primaries \cup {unary(o, p) : o \in {"nai", "shi"}, p \in Primaries}

Operands ==
    Atoms \cup {unary("shi", literal(k)) : k \in {"ok", "no", "gone"}}
          \cup {action_event("mek", bool_literal("true")),
                action_event("mek", literal("go"))}

Conjunctions ==
    {conjunction(l, r) : l \in Operands, r \in Operands}

Disjunctions ==
    {disjunction(l, r) : l \in Operands, r \in Operands}

Conditions ==
    Unaries \cup {conjunction(l, r) : l \in Operands, r \in {bool_literal("true"), bool_literal("undefined")}}
            \cup {disjunction(l, r) : l \in Operands, r \in {bool_literal("false")}}

Consequences ==
    ActionEvents \cup {literal("go"), bool_literal("true")}
                 \cup {unary("shi", literal("gone"))}

Conditionals ==
    {conditional(c, q) : c \in Conditions, q \in Consequences}

Expressions ==
    Unaries \cup Conjunctions \cup Disjunctions \cup Conditionals
            \cup {unary("nai", e) : e \in {conjunction(bool_literal("true"), action_event("mek", bool_literal("true"))),
                                          conditional(bool_literal("true"), action_event("mek", literal("go")))}}

Chains ==
    {chain(e) : e \in Expressions}

(***************************************************************************)
(* Pure helpers of the evaluator (strict mode).                            *)
(***************************************************************************)

\* is_undef: the "undefined" string or an undefined-domain dict.
is_undef(v) ==
    v.kind \in {"undefined_str", "undefined"}

\* _to_trit: "T" / "F" for booleans, "U" for undefined and for every value
\* that is not truth-typed (error dicts and literal dicts included).
to_trit(v) ==
    IF is_undef(v) THEN "U"
    ELSE IF v.kind = "bool" THEN (IF v.b THEN "T" ELSE "F")
    ELSE "U"

\* The value wrapped by a literal-domain dict.
LitValue(v) ==
    CASE v.pay = "true"   -> VBool(TRUE)
      [] v.pay = "false"  -> VBool(FALSE)
      [] v.pay = "actref" -> VActRef(v.key)
      [] OTHER            -> VStr(v.key, "value")

visit_literal(k, C) ==
    IF C.literals[k] = "absent" THEN UNDEF_OBJ ELSE VLit(k, C.literals[k])

visit_bool_literal(x) ==
    CASE x = "true"  -> VBool(TRUE)
      [] x = "false" -> VBool(FALSE)
      [] OTHER       -> UNDEF_STR

Quantifiers ==
    {"eni", "sem", "mun", "fiu"}

\* The quantifier branch of _apply_unary_op: the entries that _to_trit does
\* not type are skipped, the rest are counted.  theta = 0.4 and phi = 0.1
\* are compared in tenths.
apply_quantifier(o, val) ==
    IF val.kind = "undefined_str" THEN UNDEF_STR
    ELSE LET iterator    == IF val.kind = "list" THEN val.items ELSE <<val>>
             typed       == {i \in 1..Len(iterator) : to_trit(iterator[i]) # "U"}
             n           == Cardinality(typed)
             true_count  == Cardinality({i \in typed : to_trit(iterator[i]) = "T"})
             false_count == Cardinality({i \in typed : to_trit(iterator[i]) = "F"})
         IN  CASE o = "eni" -> IF true_count > 0 THEN VBool(TRUE)
                               ELSE IF n = 0 THEN UNDEF_STR
                               ELSE VBool(FALSE)
               [] o = "sem" -> IF n = 0 THEN UNDEF_STR
                               ELSE IF false_count = 0 THEN VBool(TRUE)
                               ELSE VBool(FALSE)
               [] o = "mun" -> IF n = 0 THEN UNDEF_STR
                               ELSE VBool(10 * true_count >= 4 * n)
               [] OTHER     -> IF n = 0 THEN UNDEF_STR
                               ELSE VBool(10 * true_count <= n)

\* _apply_unary_op for shi, nai and the quantifiers; visit_unary returns its
\* result.
apply_unary_op(o, v, opkey, C) ==
    LET extra_key == IF v.kind = "literal" THEN v.key ELSE opkey
        val       == IF v.kind = "literal" THEN LitValue(v) ELSE v
    IN  IF o = "shi"
        THEN IF extra_key = "" THEN UNDEF_STR
             ELSE IF C.knowledge[extra_key] # "absent"
                  THEN VBool(C.knowledge[extra_key] = "true")
                  ELSE VErr("ERR_EPISTEMIC_MISMATCH")
        ELSE IF o \in Quantifiers THEN apply_quantifier(o, val)
        ELSE IF to_trit(val) = "U" THEN UNDEF_STR
             ELSE VBool(to_trit(val) = "F")

\* compute_action_hash: a digest of the verb and the target.
compute_action_hash(a) ==
    LET t == a.target[1]
    IN  <<a.verb, t.kind, t.key, t.pay, t.verb>> \o t.hash

\* The elements of a finite set in some fixed order.
RECURSIVE SetToSeq(_)
SetToSeq(S) ==
    IF S = {} THEN <<>>
    ELSE LET x == CHOOSE y \in S : TRUE
         IN  <<x>> \o SetToSeq(S \ {x})

RECURSIVE ReachFrom(_, _, _)
ReachFrom(dag, S, n) ==
    IF n = 0 THEN S
    ELSE LET T == S \cup {e[2] : e \in {x \in dag.edges : x[1] \in S}}
         IN  IF T = S THEN S ELSE ReachFrom(dag, T, n - 1)

Succ(dag, S) ==
    {e[2] : e \in {x \in dag.edges : x[1] \in S}}

\* _has_cycle(node, rec_stack, visited): the depth-first search with a
\* recursion stack and a visited set.  found is its return value, visited
\* the visited set it leaves behind.  dag.get(node, []) is Succ(dag, {node});
\* the children are taken in some fixed order.
RECURSIVE has_cycle_from(_, _, _, _)
has_cycle_from(dag, todo, rec_stack, visited) ==
    IF todo = <<>> THEN [found |-> FALSE, visited |-> visited]
    ELSE LET node == Head(todo)
             r == IF node \in rec_stack THEN [found |-> TRUE, visited |-> visited]
                  ELSE IF node \in visited THEN [found |-> FALSE, visited |-> visited]
                  ELSE has_cycle_from(dag, SetToSeq(Succ(dag, {node})),
                                      rec_stack \cup {node}, visited \cup {node})
         IN  IF r.found THEN r
             ELSE has_cycle_from(dag, Tail(todo), rec_stack, r.visited)

\* Fault model of the search: every node met a second time counts as a back
\* edge.
has_cycle_by_visited(dag, node) ==
    LET reach == ReachFrom(dag, {node}, Cardinality(dag.nodes) + Cardinality(dag.edges))
    IN  \/ \E m \in reach : m \in ReachFrom(dag, Succ(dag, {m}), Cardinality(reach))
        \/ \E m \in reach : Cardinality({e \in dag.edges : e[1] \in reach /\ e[2] = m}) > 1

has_cycle(dag, node) ==
    has_cycle_from(dag, <<node>>, {}, {}).found

\* Fault model of the choke point: the action is registered but leaves
\* without its action_hash.
finalize_unhashed(a, dag) ==
    IF a.kind # "action" THEN [val |-> a, dag |-> dag]
    ELSE IF a.verb = "" \/ a.target = <<>>
    THEN [val |-> VErr("ERR_INVALID_ACTION"), dag |-> dag]
    ELSE IF is_undef(a.target[1])
    THEN [val |-> VErr("ERR_UNDEFINED_TARGET"), dag |-> dag]
    ELSE [val |-> a,
          dag |-> [nodes |-> dag.nodes \cup {compute_action_hash(a)}, edges |-> dag.edges]]

\* _finalize_action_static: check the schema (a missing verb is verb "", a
\* missing target is target <<>>) and the target, hash the action, register
\* it in the proposal DAG (the registration is not undone when a cycle is
\* found), attach the hashes.
finalize_action_static(a, dag) ==
    IF a.kind # "action" THEN [val |-> a, dag |-> dag]
    ELSE IF a.verb = "" \/ a.target = <<>>
    THEN [val |-> VErr("ERR_INVALID_ACTION"), dag |-> dag]
    ELSE IF is_undef(a.target[1])
    THEN [val |-> VErr("ERR_UNDEFINED_TARGET"), dag |-> dag]
    ELSE LET h     == compute_action_hash(a)
             t     == a.target[1]
             child == IF t.kind = "action" /\ t.hash # <<>> THEN {<<h, t.hash>>} ELSE {}
             d2    == [nodes |-> dag.nodes \cup {h}, edges |-> dag.edges \cup child]
         IN  IF has_cycle(d2, h)
             THEN [val |-> VErr("ERR_ACTION_CYCLE"), dag |-> d2]
             ELSE [val |-> [a EXCEPT !.hash = h], dag |-> d2]

\* visit_action_event in strict mode; returns the value and the DAG.
visit_action_event(verb, tgt, dag) ==
    LET target == IF tgt.kind = "literal"
                  THEN IF verb = "men" /\ tgt.pay # "actref"
                       THEN VStr(tgt.key, "key")
                       ELSE LitValue(tgt)
                  ELSE tgt
    IN  IF target.kind = "error" THEN [val |-> target, dag |-> dag]
        ELSE IF target.kind = "undefined"
        THEN [val |-> VErr("ERR_UNDEFINED_TARGET"), dag |-> dag]
        ELSE IF target.kind = "bool"
        THEN [val |-> VErr("ERR_INVALID_ACTION"), dag |-> dag]
        ELSE finalize_action_static(
                 [Blank EXCEPT !.kind = "action", !.verb = verb, !.target = <<target>>],
                 dag)

\* _apply_binary_op for an / ur.  Errors propagate left first; an operand
\* that is the "undefined" string or an undefined-domain dict makes the
\* result "undefined" before the operator's own table is consulted.
apply_binary_op(left, o, right) ==
    IF left.kind = "error" THEN left
    ELSE IF right.kind = "error" THEN right
    ELSE IF is_undef(left) THEN UNDEF_STR
    ELSE IF is_undef(right) THEN UNDEF_STR
    ELSE LET left_val  == IF left.kind = "literal" THEN LitValue(left) ELSE left
             right_val == IF right.kind = "literal" THEN LitValue(right) ELSE right
             tL == to_trit(left_val)
             tR == to_trit(right_val)
         IN  IF o = "an"
             THEN IF tL = "F" \/ tR = "F" THEN VBool(FALSE)
                  ELSE IF tL = "U" \/ tR = "U" THEN UNDEF_STR
                  ELSE VBool(TRUE)
             ELSE IF tL = "T" \/ tR = "T" THEN VBool(TRUE)
                  ELSE IF tL = "F" /\ tR = "F" THEN VBool(FALSE)
                  ELSE UNDEF_STR

RECURSIVE is_valid_action_structure(_)
is_valid_action_structure(obj) ==
    IF obj.kind \in {"action", "actref"} THEN TRUE
    ELSE IF obj.kind = "list"
    THEN \A i \in 1..Len(obj.items) : is_valid_action_structure(obj.items[i])
    ELSE FALSE

\* Fault model of the guard: a false condition lets the action block through.
conditional_open_on_false(condition, action_block) ==
    IF condition.kind \notin {"undefined_str", "bool", "undefined", "error"}
    THEN VErr("ERR_GUARD_TYPE")
    ELSE IF to_trit(condition) = "U" THEN UNDEF_STR
    ELSE IF is_valid_action_structure(action_block)
         THEN action_block
         ELSE VErr("ERR_GUARD_TYPE")

\* _handle_conditional for [condition, "khi", action_block] in strict mode.
handle_conditional(condition, action_block) ==
    IF condition.kind \notin {"undefined_str", "bool", "undefined", "error"}
    THEN VErr("ERR_GUARD_TYPE")
    ELSE IF to_trit(condition) = "U" THEN UNDEF_STR
    ELSE IF to_trit(condition) = "T"
    THEN IF is_valid_action_structure(action_block)
         THEN action_block
         ELSE VErr("ERR_GUARD_TYPE")
    ELSE UNDEF_STR

visit_sek_scope(x) ==
    VList(<<x>>)

\* wrap_domain: the typed result {"domain", "value"} of a raw value.
wrap_domain(v) ==
    [domain |-> CASE v.kind = "error"         -> "error"
                  [] v.kind = "undefined"     -> "undefined"
                  [] v.kind = "literal"       -> "literal"
                  [] v.kind = "action"        -> "action"
                  [] v.kind = "actref"        -> "action"
                  [] v.kind = "undefined_str" -> "undefined"
                  [] v.kind = "bool"          -> "truth"
                  [] v.kind = "list"          -> "list"
                  [] OTHER                    -> "structural",
     value  |-> v]

NoResult ==
    [domain |-> "none", value |-> Blank]

EmptyDag ==
    [nodes |-> {}, edges |-> {}]

(***************************************************************************)
(* One visit: the visitor method of node n applied to the results of its   *)
(* children, which are the topmost entries of the value stack.             *)
(***************************************************************************)
Visit(n, st, C) ==
    LET s      == st.stack
        top(i) == s[Len(s) - i]
        pop(i) == SubSeq(s, 1, Len(s) - i)
        keep(i, v) == [stack |-> Append(pop(i), v), dag |-> st.dag]
    IN  CASE n.op = "literal"      -> keep(0, visit_literal(n.key, C))
          [] n.op = "bool_literal" -> keep(0, visit_bool_literal(n.arg))
          [] n.op = "unary"        -> keep(1, apply_unary_op(n.arg, top(0), n.key, C))
          [] n.op = "action_event" ->
                LET r == visit_action_event(n.arg, top(0), st.dag)
                IN  [stack |-> Append(pop(1), r.val), dag |-> r.dag]
          [] n.op = "conjunction"  -> keep(2, apply_binary_op(top(1), "an", top(0)))
          [] n.op = "disjunction"  -> keep(2, apply_binary_op(top(1), "ur", top(0)))
          [] n.op = "sek_scope"    -> keep(1, visit_sek_scope(top(0)))
          [] n.op = "conditional"  -> keep(2, handle_conditional(top(1), top(0)))
          [] OTHER                 -> st

\* visit_parse_tree: every node of the tree, children before parents.
RECURSIVE visit_parse_tree(_, _, _)
visit_parse_tree(prog, st, C) ==
    IF prog = <<>> THEN st
    ELSE visit_parse_tree(Tail(prog), Visit(Head(prog), st, C), C)

(***************************************************************************)
(* Part B: strict validation (noe/noe_validator.py, validate_chain) and    *)
(* the two entry points that run it before the evaluator.                  *)
(***************************************************************************)
ACTION_OPS ==
    {"mek", "men"}

LOGIC_OPS ==
    {"an", "ur", "nai", "nex", "khi", "kra", "sek", "shi", "vek", "sha", "tor",
     "da", "nau", "ret", "tri", "qer", "eni", "sem", "mun", "fiu"}

COMP_OPS ==
    {"<", ">", "<=", ">=", "=", "kos", "til", "nel", "tel", "xel", "en", "tra",
     "fra", "lef", "rai", "sup", "bel", "fai", "ban", "rel"}

Positions(ts, S) ==
    {i \in 1..Len(ts) : ts[i] \in S}

Least(S) ==
    CHOOSE i \in S : \A j \in S : i <= j

is_pure_action(ts) ==
    /\ ts # <<>>
    /\ ts[1] \in ACTION_OPS
    /\ \A i \in 2..Len(ts) : ts[i] \notin LOGIC_OPS \cup COMP_OPS

\* Fault model of the action-class rule: only pure action chains and kra
\* blocks are looked at.
action_rule_without_guard_check(tokens) ==
    LET action_positions == Positions(tokens, ACTION_OPS)
        sek_positions    == Positions(tokens, {"sek"})
        none             == [flag |-> FALSE, listed |-> FALSE]
    IN  IF action_positions = {} THEN none
        ELSE IF is_pure_action(tokens) THEN none
        ELSE IF tokens[1] = "kra" /\ Cardinality(sek_positions) >= 2
        THEN LET first_sek  == Least(sek_positions)
                 second_sek == Least(sek_positions \ {first_sek})
             IN  IF \A i \in action_positions : first_sek < i /\ i < second_sek
                 THEN none
                 ELSE [flag |-> TRUE, listed |-> TRUE]
        ELSE IF Positions(tokens, {"khi"}) # {} THEN none
        ELSE [flag |-> TRUE, listed |-> FALSE]

\* The action-class rule of validate_chain: flag says that action_misuse is
\* raised, listed that an ERR_ACTION_MISUSE entry is appended to errors.
action_class_rule(tokens) ==
    LET action_positions == Positions(tokens, ACTION_OPS)
        khi_positions    == Positions(tokens, {"khi"})
        sek_positions    == Positions(tokens, {"sek"})
        none             == [flag |-> FALSE, listed |-> FALSE]
        misuse           == [flag |-> TRUE, listed |-> FALSE]
    IN  IF action_positions = {} THEN none
        ELSE IF is_pure_action(tokens) THEN none
        ELSE IF tokens[1] = "kra" /\ Cardinality(sek_positions) >= 2
        THEN LET first_sek  == Least(sek_positions)
                 second_sek == Least(sek_positions \ {first_sek})
             IN  IF \A i \in action_positions : first_sek < i /\ i < second_sek
                 THEN none
                 ELSE [flag |-> TRUE, listed |-> TRUE]
        ELSE IF khi_positions # {}
        THEN LET k_idx == Least(khi_positions)
             IN  IF \E i \in action_positions : i < k_idx THEN misuse
                 ELSE IF k_idx = Len(tokens) \/ tokens[k_idx + 1] \notin ACTION_OPS \cup {"sek"}
                 THEN misuse
                 ELSE IF \E i \in (k_idx + 2)..Len(tokens) :
                            \/ tokens[i] \in LOGIC_OPS \ {"khi", "sek", "nek"}
                            \/ tokens[i] \in COMP_OPS
                 THEN misuse
                 ELSE none
        ELSE misuse

\* ERROR_PRIORITY with the code as tie-break, as one rank per code.
ErrorRank(code) ==
    CASE code = "ERR_CONTEXT_INCOMPLETE" -> 10
      [] code = "ERR_CONTEXT_STALE"      -> 11
      [] code = "ERR_ACTION_MISUSE"      -> 20
      [] code = "ERR_LITERAL_MISSING"    -> 41
      [] OTHER                           -> 999

RECURSIVE sort_errors(_)
sort_errors(codes) ==
    IF codes = {} THEN <<>>
    ELSE LET c == CHOOSE x \in codes : \A y \in codes : ErrorRank(x) <= ErrorRank(y)
         IN  <<c>> \o sort_errors(codes \ {c})

\* validate_chain in strict mode on a well-formed flat context X:
\*   X.literals  which literals exist,
\*   X.stale     the temporal shard says the context is stale (X.stale_key is
\*               the key "stale" of the context, which only run_noe_logic reads),
\*   X.audit     the audit subsystem is present.
\* The result has no "domain" key (domain = "none").
validate_chain(tokens, lits, X) ==
    LET literal_mismatch == \E k \in lits : X.literals[k] = "absent"
        context_stale    == X.stale
        audit_mismatch   == (\E i \in 1..Len(tokens) : tokens[i] \in {"men", "khi"}) /\ ~X.audit
        rule             == action_class_rule(tokens)
        codes            == (IF literal_mismatch THEN {"ERR_LITERAL_MISSING"} ELSE {})
                              \cup (IF context_stale THEN {"ERR_CONTEXT_STALE"} ELSE {})
                              \cup (IF audit_mismatch THEN {"ERR_CONTEXT_INCOMPLETE"} ELSE {})
                              \cup (IF rule.listed THEN {"ERR_ACTION_MISUSE"} ELSE {})
        flag_error       == IF rule.flag THEN "ERR_ACTION_MISUSE"
                            ELSE IF literal_mismatch THEN "ERR_LITERAL_MISSING"
                            ELSE IF audit_mismatch THEN "ERR_CONTEXT_INCOMPLETE"
                            ELSE IF context_stale THEN "ERR_CONTEXT_STALE"
                            ELSE ""
        ok               == flag_error = "" /\ codes = {}
        errors           == sort_errors(codes)
    IN  [ok            |-> ok,
         domain        |-> "none",
         context_error |-> IF ~ok /\ errors # <<>> THEN errors[1] ELSE flag_error,
         action_misuse |-> rule.flag,
         errors        |-> errors]

(***************************************************************************)
(* The visitor as a state machine.                                         *)
(*   src    the chain under evaluation                                     *)
(*   ctx    the evaluation context                                         *)
(*   pos    how many nodes of src.prog have been visited                   *)
(*   stack  the results of the visited, not yet consumed nodes             *)
(*   dag    ctx["_action_dag"]                                             *)
(*   out    the result of visit_chain                                      *)
(* The entry points (Part B) add                                           *)
(*   entry       which entry point is called on (src, ctx)                 *)
(*   snap_stale  ContextSnapshot.is_stale of the runtime's snapshot        *)
(*   rr          the result the call returns                               *)
(*   prov        the provenance record built for it                        *)
(*   evaluated   whether a NoeEvaluator was run on the chain               *)
(*   parsed      whether the chain text was parsed                         *)
(*   tree        the parse tree, where its nesting is what matters         *)
(* and the validator on raw token streams                                  *)
(*   toks     the operator tokens of the chain text                        *)
(*   vctx     the context it is validated against                          *)
(*   verdict  the ValidationResult                                         *)
(* and the safe projection (Part C)                                        *)
(*   c_rich               the annotated evidence handed to pi_safe         *)
(*   independence_groups  the map from sources to independence groups      *)
(*   now_ms               the current time                                 *)
(*   c_safe               the bare literals pi_safe returned               *)
(*   projected            whether pi_safe has run                          *)
(***************************************************************************)
VARIABLES src, ctx, pos, stack, dag, out,
          entry, snap_stale, rr, prov, evaluated, parsed, tree,
          toks, vctx, verdict,
          c_rich, independence_groups, now_ms, c_safe, projected

VARIABLES act_a, act_b, hash_a, hash_b, hashed

VARIABLES root_dict_cached, domain_dict_cached, cm_local, root_hash, domain_hash,
          last_local_update_ms, clock, lock, ext, ret,
          snap_pc, snap_now, snap_copy, ver, prev_ver,
          caller_ctx, ast_cache, first, last, calls, th, recency

hashVars == <<act_a, act_b, hash_a, hash_b, hashed>>

cmVars == <<root_dict_cached, domain_dict_cached, cm_local, root_hash, domain_hash,
            last_local_update_ms, clock, lock, ext, ret,
            snap_pc, snap_now, snap_copy, ver, prev_ver>>

sessVars == <<caller_ctx, ast_cache, first, last, calls, th, recency>>

extVars == <<hashVars, cmVars, sessVars>>

evalVars == <<src, ctx, pos, stack, dag, out>>

runVars == <<entry, snap_stale, rr, prov, evaluated, parsed, tree>>

valVars == <<toks, vctx, verdict>>

projVars == <<c_rich, independence_groups, now_ms, c_safe, projected>>

vars == <<src, ctx, pos, stack, dag, out,
          entry, snap_stale, rr, prov, evaluated, parsed, tree,
          toks, vctx, verdict,
          c_rich, independence_groups, now_ms, c_safe, projected,
          act_a, act_b, hash_a, hash_b, hashed,
          root_dict_cached, domain_dict_cached, cm_local, root_hash, domain_hash,
          last_local_update_ms, clock, lock, ext, ret,
          snap_pc, snap_now, snap_copy, ver, prev_ver,
          caller_ctx, ast_cache, first, last, calls, th, recency>>

NoHash ==
    <<>>

\* A terminal of a parse tree.
Terminal ==
    [kind |-> "terminal", children |-> <<>>]

NoRuntimeResult ==
    [domain |-> "none", code |-> "", value |-> Blank,
     action_hash |-> NoHash, decision_hash |-> NoHash]

NoProv ==
    [built |-> FALSE, action_hash |-> NoHash, decision_hash |-> NoHash]

NoVerdict ==
    [ok |-> FALSE, domain |-> "pending", context_error |-> "",
     action_misuse |-> FALSE, errors |-> <<>>]

NoContext ==
    [literals |-> [k \in Keys |-> "absent"], knowledge |-> [k \in Keys |-> "absent"],
     stale |-> FALSE, audit |-> FALSE, stale_key |-> FALSE]

RunIdle ==
    /\ entry = "none"
    /\ snap_stale = FALSE
    /\ rr = NoRuntimeResult
    /\ prov = NoProv
    /\ evaluated = FALSE
    /\ parsed = FALSE
    /\ tree = Terminal

ValIdle ==
    /\ toks = <<>>
    /\ vctx = NoContext
    /\ verdict = NoVerdict

ProjIdle ==
    /\ c_rich = <<>>
    /\ independence_groups = "none"
    /\ now_ms = 0
    /\ c_safe = {}
    /\ projected = FALSE

EvalIdle ==
    /\ src = chain(bool_literal("true"))
    /\ ctx = CtxA
    /\ pos = 0
    /\ stack = <<>>
    /\ dag = EmptyDag
    /\ out = NoResult

NoTarget ==
    [kind |-> "str", name |-> "", status |-> "absent", action_hash |-> <<>>]

NoActionObj ==
    [verb |-> "", target |-> NoTarget, child_action_hash |-> <<>>,
     status |-> "absent", verified |-> "absent", audit_status |-> "absent",
     observed_at_ms |-> "absent", expires_at_ms |-> "absent",
     include_outcome_in_hash |-> "absent", scratch |-> "absent"]

HashIdle ==
    /\ act_a = NoActionObj
    /\ act_b = NoActionObj
    /\ hash_a = <<>>
    /\ hash_b = <<>>
    /\ hashed = FALSE

EmptyDict ==
    [x |-> "absent", blob |-> "absent"]

NoDigest ==
    [digest |-> <<>>, hex |-> <<>>]

NoExt ==
    [alias |-> "none", dirty |-> FALSE]

NoCopy ==
    [root |-> EmptyDict, domain |-> EmptyDict, local |-> EmptyDict,
     is_stale |-> FALSE, ver |-> 0]

\* The value the last call returned: nothing yet, None, an exception or a
\* ContextSnapshot.
NoRet ==
    [kind |-> "none", root |-> EmptyDict, domain |-> EmptyDict, local |-> EmptyDict,
     merged |-> EmptyDict, root_hash |-> <<>>, domain_hash |-> <<>>,
     local_hash |-> <<>>, context_hash |-> <<>>, timestamp_ms |-> 0,
     is_stale |-> FALSE, ver |-> 0, hash_ver |-> 0]

CmIdle ==
    /\ root_dict_cached = EmptyDict
    /\ domain_dict_cached = EmptyDict
    /\ cm_local = EmptyDict
    /\ root_hash = NoDigest
    /\ domain_hash = NoDigest
    /\ last_local_update_ms = 0
    /\ clock = 0
    /\ lock = "free"
    /\ ext = NoExt
    /\ ret = NoRet
    /\ snap_pc = "idle"
    /\ snap_now = 0
    /\ snap_copy = NoCopy
    /\ ver = 0
    /\ prev_ver = 0

NoCall ==
    [text |-> "", res |-> NoRuntimeResult, context_hash |-> NoHash, dag_in |-> EmptyDag]

SessIdle ==
    /\ caller_ctx = [X |-> NoContext, hashable |-> TRUE, dag |-> EmptyDag]
    /\ ast_cache = <<>>
    /\ first = <<>>
    /\ last = NoCall
    /\ calls = 0
    /\ th = <<>>
    /\ recency = <<>>

ExtIdle ==
    HashIdle /\ CmIdle /\ SessIdle

Top(n) ==
    stack[Len(stack) - n]

At(o) ==
    /\ pos < Len(src.prog)
    /\ src.prog[pos + 1].op = o

Advance ==
    LET r == Visit(src.prog[pos + 1], [stack |-> stack, dag |-> dag], ctx)
    IN  /\ stack' = r.stack
        /\ dag' = r.dag
        /\ pos' = pos + 1
        /\ UNCHANGED <<src, ctx, runVars, valVars, projVars, extVars>>

VisitLiteral ==
    At("literal") /\ Advance /\ UNCHANGED out

VisitBoolLiteral ==
    At("bool_literal") /\ Advance /\ UNCHANGED out

VisitUnary ==
    At("unary") /\ Advance /\ UNCHANGED out

VisitActionEvent ==
    At("action_event") /\ Advance /\ UNCHANGED out

VisitConjunction ==
    At("conjunction") /\ Advance /\ UNCHANGED out

VisitDisjunction ==
    At("disjunction") /\ Advance /\ UNCHANGED out

VisitSekScope ==
    At("sek_scope") /\ Advance /\ UNCHANGED out

VisitConditional ==
    At("conditional") /\ Advance /\ UNCHANGED out

VisitChain ==
    /\ At("chain")
    /\ Advance
    /\ out' = wrap_domain(Top(0))

EvalInit ==
    /\ src \in Chains
    /\ ctx \in Contexts
    /\ pos = 0
    /\ stack = <<>>
    /\ dag = EmptyDag
    /\ out = NoResult
    /\ RunIdle
    /\ ValIdle
    /\ ProjIdle
    /\ ExtIdle

EvalNext ==
    \/ VisitLiteral
    \/ VisitBoolLiteral
    \/ VisitUnary
    \/ VisitActionEvent
    \/ VisitConjunction
    \/ VisitDisjunction
    \/ VisitSekScope
    \/ VisitConditional
    \/ VisitChain

EvalSpec ==
    EvalInit /\ [][EvalNext]_vars

(***************************************************************************)
(* Entry points.  run_noe_logic (noe_parser.py) and                        *)
(* NoeRuntime.evaluate_with_provenance (noe_runtime.py) both validate the  *)
(* chain and then evaluate it with a fresh evaluator and an empty DAG.     *)
(***************************************************************************)
RunContexts ==
    {[c EXCEPT !.stale = s, !.audit = a, !.stale_key = k] :
        c \in Contexts, s \in BOOLEAN, a \in BOOLEAN, k \in BOOLEAN}

\* The wrapped result of a fresh NoeEvaluator on the chain.
Evaluated(c, X) ==
    LET st == visit_parse_tree(c.prog, [stack |-> <<>>, dag |-> EmptyDag], X)
    IN  wrap_domain(st.stack[Len(st.stack)])

Result(d, c, v) ==
    [domain |-> d, code |-> c, value |-> v,
     action_hash |-> NoHash, decision_hash |-> NoHash]

\* run_noe_logic in strict mode.
run_noe_logic(c, X) ==
    LET v_result == validate_chain(c.toks, c.lits, X)
    IN  IF ~v_result.ok
        THEN [ran |-> FALSE, parsed |-> FALSE,
              res |-> Result("error",
                             IF v_result.errors # <<>> THEN v_result.errors[1]
                             ELSE v_result.context_error,
                             VStr("blocked", "value"))]
        ELSE IF X.stale_key
        THEN [ran |-> FALSE, parsed |-> FALSE,
              res |-> Result("error", "ERR_STALE_CONTEXT", VStr("stale", "value"))]
        ELSE LET r == Evaluated(c, X)
             IN  [ran |-> TRUE, parsed |-> TRUE,
                  res |-> Result(r.domain, r.value.code, r.value)]

\* The hash selection of NoeRuntime.evaluate (prov_data).
\* Fault model: the execution-request hash for every domain.
prov_data_action_only(domain) ==
    [action_hash |-> <<"noe.action.v1">>, decision_hash |-> NoHash]

prov_data(domain) ==
    IF domain = "action"
    THEN [action_hash |-> <<"noe.action.v1">>, decision_hash |-> NoHash]
    ELSE [action_hash |-> NoHash, decision_hash |-> <<"noe.decision.v1">>]

\* Fault model of the runtime: the stale flag of the snapshot is not looked
\* at.
evaluate_ignoring_staleness(c, X, is_stale) ==
    LET val_res == validate_chain(c.toks, c.lits, X)
    IN  IF ~val_res.ok
        THEN [ran |-> FALSE, parsed |-> TRUE, res |-> Result("undefined", "", Blank)]
        ELSE LET r == Evaluated(c, X)
             IN  [ran |-> TRUE, parsed |-> TRUE,
                  res |-> [domain        |-> r.domain,
                           code          |-> r.value.code,
                           value         |-> IF r.domain \in {"error", "undefined"}
                                             THEN Blank ELSE r.value,
                           action_hash   |-> IF r.domain \in {"error", "undefined"}
                                             THEN NoHash
                                             ELSE prov_data(r.domain).action_hash,
                           decision_hash |-> IF r.domain \in {"error", "undefined"}
                                             THEN NoHash
                                             ELSE prov_data(r.domain).decision_hash]]

\* NoeRuntime.evaluate in strict mode without safety handler: the stale
\* check, then the parse, then validate_chain, then the evaluator.
evaluate(c, X, is_stale) ==
    IF is_stale
    THEN [ran |-> FALSE, parsed |-> FALSE,
          res |-> Result("error", "ERR_CONTEXT_STALE", Blank)]
    ELSE LET val_res == validate_chain(c.toks, c.lits, X)
         IN  IF ~val_res.ok
             THEN IF val_res.domain = "error"
                  THEN [ran |-> FALSE, parsed |-> TRUE,
                        res |-> Result("error", val_res.context_error, Blank)]
                  ELSE [ran |-> FALSE, parsed |-> TRUE,
                        res |-> Result("undefined", "", Blank)]
             ELSE LET r == Evaluated(c, X)
                  IN  IF r.domain = "error"
                      THEN [ran |-> TRUE, parsed |-> TRUE,
                            res |-> Result("error", r.value.code, Blank)]
                      ELSE IF r.domain = "undefined"
                      THEN [ran |-> TRUE, parsed |-> TRUE,
                            res |-> Result("undefined", "", Blank)]
                      ELSE [ran |-> TRUE, parsed |-> TRUE,
                            res |-> [domain        |-> r.domain,
                                     code          |-> "",
                                     value         |-> r.value,
                                     action_hash   |-> prov_data(r.domain).action_hash,
                                     decision_hash |-> prov_data(r.domain).decision_hash]]

\* build_provenance_record: which of the passed hashes the record keeps.
build_provenance_record(result_domain, action_hash, decision_hash) ==
    IF result_domain \in {"error", "undefined"}
    THEN [built |-> TRUE, action_hash |-> NoHash, decision_hash |-> NoHash]
    ELSE IF result_domain # "action"
    THEN [built |-> TRUE, action_hash |-> NoHash, decision_hash |-> decision_hash]
    ELSE [built |-> TRUE, action_hash |-> action_hash, decision_hash |-> NoHash]

RunNoeLogic ==
    /\ entry = "run_noe_logic"
    /\ rr = NoRuntimeResult
    /\ LET r == run_noe_logic(src, ctx)
       IN  /\ rr' = r.res
           /\ evaluated' = r.ran
           /\ parsed' = r.parsed
    /\ UNCHANGED <<evalVars, entry, snap_stale, prov, tree, valVars, projVars, extVars>>

EvaluateWithProvenance ==
    /\ entry = "evaluate_with_provenance"
    /\ rr = NoRuntimeResult
    /\ LET r == evaluate(src, ctx, snap_stale)
       IN  /\ rr' = r.res
           /\ evaluated' = r.ran
           /\ parsed' = r.parsed
           /\ prov' = build_provenance_record(r.res.domain, r.res.action_hash,
                                              r.res.decision_hash)
    /\ UNCHANGED <<evalVars, entry, snap_stale, tree, valVars, projVars, extVars>>

RunInit ==
    /\ src \in Chains
    /\ ctx \in RunContexts
    /\ entry \in {"run_noe_logic", "evaluate_with_provenance"}
    /\ snap_stale \in BOOLEAN
    /\ entry = "run_noe_logic" => ~snap_stale
    /\ pos = 0
    /\ stack = <<>>
    /\ dag = EmptyDag
    /\ out = NoResult
    /\ rr = NoRuntimeResult
    /\ prov = NoProv
    /\ evaluated = FALSE
    /\ parsed = FALSE
    /\ tree = Terminal
    /\ ValIdle
    /\ ProjIdle
    /\ ExtIdle

RunNext ==
    \/ RunNoeLogic
    \/ EvaluateWithProvenance

RunSpec ==
    RunInit /\ [][RunNext]_vars

(***************************************************************************)
(* The validator on raw token streams: validate_chain reads the operator   *)
(* tokens of the text, whether or not the text parses.                     *)
(***************************************************************************)
MaxTokens ==
    5

TokenAlphabet ==
    {"mek", "men", "khi", "sek", "an", "kra", "="}

RECURSIVE TokenStreams(_)
TokenStreams(n) ==
    IF n = 0 THEN {<<>>}
    ELSE LET S == TokenStreams(n - 1)
         IN  S \cup {Append(t, x) : t \in {u \in S : Len(u) = n - 1}, x \in TokenAlphabet}

ValidateChain ==
    /\ verdict = NoVerdict
    /\ verdict' = validate_chain(toks, {}, vctx)
    /\ UNCHANGED <<evalVars, runVars, toks, vctx, projVars, extVars>>

ValidateInit ==
    /\ toks \in TokenStreams(MaxTokens)
    /\ vctx \in {[CtxA EXCEPT !.audit = a] : a \in BOOLEAN}
    /\ verdict = NoVerdict
    /\ EvalIdle
    /\ RunIdle
    /\ ProjIdle
    /\ ExtIdle

ValidateNext ==
    ValidateChain

ValidateSpec ==
    ValidateInit /\ [][ValidateNext]_vars

(***************************************************************************)
(* Part C: the safe projection (noe/context_projection.py).  Confidence is *)
(* kept in hundredths; a reading's value is "true", "false" or "nan" (a    *)
(* float NaN); conf_kind says whether the confidence is a finite number,   *)
(* an infinity ("inf") or a NaN ("nan").                                   *)
(***************************************************************************)
MAX_CLOCK_SKEW_MS ==
    200

tau_stale_ms ==
    1000

theta_thresh ==
    80

tau_window_ms ==
    100

\* The authority map handed to pi_safe: predicate p has an allow-list,
\* predicate q has none.
auth_map ==
    [p |-> [defined |-> TRUE, sources |-> {"a"}],
     q |-> [defined |-> FALSE, sources |-> {}]]

\* Fault model of the filter: the authority map is not consulted.
is_candidate_without_authority(l, now) ==
    LET age_ms == now - l.timestamp
    IN  /\ ~(age_ms < -MAX_CLOCK_SKEW_MS)
        /\ ~(age_ms > tau_stale_ms)
        /\ l.conf_kind = "finite"
        /\ ~(l.confidence < theta_thresh)

\* is_candidate: freshness, confidence, authority.
is_candidate(l, now) ==
    LET age_ms == now - l.timestamp
        allowed_sources == auth_map[l.predicate]
    IN  /\ ~(age_ms < -MAX_CLOCK_SKEW_MS)
        /\ ~(age_ms > tau_stale_ms)
        /\ l.conf_kind = "finite"
        /\ ~(l.confidence < theta_thresh)
        /\ ~(allowed_sources.defined /\ l.source \notin allowed_sources.sources)

Items(evidence, now, pred) ==
    {i \in 1..Len(evidence) : is_candidate(evidence[i], now) /\ evidence[i].predicate = pred}

Newest(evidence, S) ==
    CHOOSE t \in {evidence[i].timestamp : i \in S} :
        \A i \in S : evidence[i].timestamp <= t

\* The candidates of pred that are simultaneous with its newest candidate.
leading_edge(evidence, now, pred) ==
    LET items == Items(evidence, now, pred)
    IN  {i \in items : Newest(evidence, items) - evidence[i].timestamp <= tau_window_ms}

group_id(l, ig) ==
    IF ig = "paired" THEN "g" ELSE l.source

\* The comparison keys a group collects; a NaN reading adds none.
group_keys(evidence, edge, ig, g) ==
    {evidence[i].value : i \in {j \in edge : group_id(evidence[j], ig) = g
                                              /\ evidence[j].value # "nan"}}

\* Fault model of the consensus check: only conflicts inside one
\* independence group suppress the predicate.
promoted_ignoring_other_groups(evidence, now, ig, pred) ==
    LET edge   == leading_edge(evidence, now, pred)
        groups == {group_id(evidence[i], ig) : i \in edge}
        keys   == UNION {group_keys(evidence, edge, ig, g) : g \in groups}
    IN  IF Items(evidence, now, pred) = {} THEN {}
        ELSE IF (\A g \in groups : Cardinality(group_keys(evidence, edge, ig, g)) <= 1)
                /\ keys # {}
        THEN {[predicate |-> pred, value |-> CHOOSE v \in keys : TRUE]}
        ELSE {}

\* The body of pi_safe's loop for one predicate: the literal it promotes,
\* if any.
promoted(evidence, now, ig, pred) ==
    LET edge   == leading_edge(evidence, now, pred)
        groups == {group_id(evidence[i], ig) : i \in edge}
        keys   == UNION {group_keys(evidence, edge, ig, g) : g \in groups}
    IN  IF Items(evidence, now, pred) = {} THEN {}
        ELSE IF (\A g \in groups : Cardinality(group_keys(evidence, edge, ig, g)) <= 1)
                /\ Cardinality(keys) = 1
        THEN {[predicate |-> pred, value |-> CHOOSE v \in keys : TRUE]}
        ELSE {}

Predicates ==
    {"p", "q"}

\* Fault model of the projection: a predicate whose candidates reach no
\* consensus is reported as false instead of being left out.
pi_safe_defaulting_to_false(evidence, now, ig) ==
    UNION {IF promoted(evidence, now, ig, pred) = {} /\ Items(evidence, now, pred) # {}
           THEN {[predicate |-> pred, value |-> "false"]}
           ELSE promoted(evidence, now, ig, pred) : pred \in Predicates}

pi_safe(evidence, now, ig) ==
    UNION {promoted(evidence, now, ig, pred) : pred \in Predicates}

MaxEvidence ==
    2

NowMs ==
    2000

\* Readings of every age; a reading below the confidence threshold is one
\* taken now.  Besides them, one reading each from within and from beyond
\* the clock skew, and one each with an infinite and a NaN confidence.
Readings ==
    {r \in [predicate : Predicates, value : {"true", "false", "nan"},
            timestamp : {NowMs - 1100, NowMs - 110, NowMs - 10, NowMs},
            source : {"a", "b"}, confidence : {50, 95}, conf_kind : {"finite"}] :
        r.confidence = 50 => r.timestamp = NowMs}
      \cup {[predicate |-> "q", value |-> "false", timestamp |-> NowMs + d,
             source |-> "b", confidence |-> 95, conf_kind |-> "finite"] :
                d \in {MAX_CLOCK_SKEW_MS - 100, MAX_CLOCK_SKEW_MS + 100}}
      \cup {[predicate |-> "q", value |-> "false", timestamp |-> NowMs,
             source |-> "b", confidence |-> 95, conf_kind |-> k] : k \in {"inf", "nan"}}

RECURSIVE EvidenceLists(_)
EvidenceLists(n) ==
    IF n = 0 THEN {<<>>}
    ELSE LET S == EvidenceLists(n - 1)
         IN  S \cup {Append(e, r) : e \in {x \in S : Len(x) = n - 1}, r \in Readings}

PiSafe ==
    /\ ~projected
    /\ c_safe' = pi_safe(c_rich, now_ms, independence_groups)
    /\ projected' = TRUE
    /\ UNCHANGED <<evalVars, runVars, valVars, c_rich, independence_groups, now_ms, extVars>>

ProjInit ==
    /\ c_rich \in EvidenceLists(MaxEvidence)
    /\ independence_groups \in {"none", "paired"}
    /\ now_ms = NowMs
    /\ c_safe = {}
    /\ projected = FALSE
    /\ EvalIdle
    /\ RunIdle
    /\ ValIdle
    /\ ExtIdle

ProjNext ==
    PiSafe

ProjSpec ==
    ProjInit /\ [][ProjNext]_vars

(***************************************************************************)
(* Properties of the evaluator.                                            *)
(***************************************************************************)
RECURSIVE ContainsAction(_)
ContainsAction(v) ==
    \/ v.kind = "action"
    \/ /\ v.kind = "list"
       /\ \E i \in 1..Len(v.items) : ContainsAction(v.items[i])

RECURSIVE HashesIn(_)
HashesIn(v) ==
    IF v.kind = "action" THEN {v.hash}
    ELSE IF v.kind = "list" /\ v.items # <<>>
    THEN HashesIn(Head(v.items)) \cup HashesIn([v EXCEPT !.items = Tail(v.items)])
    ELSE {}

RECURSIVE ErrorCodesIn(_)
ErrorCodesIn(v) ==
    IF v.kind = "error" THEN {v.code}
    ELSE IF v.kind = "list" /\ v.items # <<>>
    THEN ErrorCodesIn(Head(v.items)) \cup ErrorCodesIn([v EXCEPT !.items = Tail(v.items)])
    ELSE {}

Done ==
    out # NoResult

IsGuard ==
    src.clen > 0

\* The value the guard's condition evaluates to.
CondValue ==
    LET r == visit_parse_tree(SubSeq(src.prog, 1, src.clen),
                              [stack |-> <<>>, dag |-> EmptyDag], ctx)
    IN  r.stack[Len(r.stack)]

\* The node that builds the guard's consequence.
ConsequenceNode ==
    src.prog[Len(src.prog) - 3]

K3Value(v) ==
    v.kind = "bool" \/ is_undef(v)

K3And(a, b) ==
    IF a = "F" \/ b = "F" THEN "F"
    ELSE IF a = "U" \/ b = "U" THEN "U"
    ELSE "T"

K3Or(a, b) ==
    IF a = "T" \/ b = "T" THEN "T"
    ELSE IF a = "F" /\ b = "F" THEN "F"
    ELSE "U"

\* C1: in strict mode, when the condition of a guard evaluates to false or
\* to undefined, the overall result has domain undefined and its value
\* holds no action object.
C1_BlockedGuardIsUndefined ==
    (Done /\ IsGuard /\ (CondValue = VBool(FALSE) \/ is_undef(CondValue)))
        => (out.domain = "undefined" /\ ~ContainsAction(out.value))

C1_Witness ==
    /\ Done /\ IsGuard
    /\ CondValue = VBool(FALSE)
    /\ ConsequenceNode.op = "action_event"
    /\ dag.nodes # {}
    /\ out.domain = "undefined"

\* C2: the consequence of a guard is executed only when the condition is
\* true; when the condition is false or undefined, no action of the
\* consequence has been constructed, hashed or entered into the proposal
\* DAG by the time the guard is decided.
C2_NoActionUnlessGuardHolds ==
    (At("conditional") /\ to_trit(Top(1)) # "T")
        => (~ContainsAction(Top(0)) /\ HashesIn(Top(0)) \cap dag.nodes = {})

\* C3: `an` follows the strong Kleene table; in particular false an x and
\* x an false are false for every x, undefined included.
C3_AndIsStrongKleene ==
    [][(At("conjunction") /\ K3Value(Top(1)) /\ K3Value(Top(0)))
         => (/\ K3Value(stack'[Len(stack')])
             /\ to_trit(stack'[Len(stack')])
                  = K3And(to_trit(Top(1)), to_trit(Top(0))))]_vars

\* C4: `ur` follows the strong Kleene table; in particular true ur x and
\* x ur true are true for every x, undefined included.
C4_OrIsStrongKleene ==
    [][(At("disjunction") /\ K3Value(Top(1)) /\ K3Value(Top(0)))
         => (/\ K3Value(stack'[Len(stack')])
             /\ to_trit(stack'[Len(stack')])
                  = K3Or(to_trit(Top(1)), to_trit(Top(0))))]_vars

\* The error codes among the operands of the node about to be visited.
OperandErrors ==
    IF pos >= Len(src.prog) THEN {}
    ELSE LET o == src.prog[pos + 1].op
         IN  CASE o \in {"unary", "action_event", "chain"} -> ErrorCodesIn(Top(0))
               [] o \in {"conjunction", "disjunction"}     ->
                      (IF Top(1).kind = "error" THEN {Top(1).code} ELSE {})
                        \cup (IF Top(0).kind = "error" THEN {Top(0).code} ELSE {})
               [] o = "conditional"                        ->
                      (IF Top(1).kind = "error" THEN {Top(1).code} ELSE {})
                        \cup ErrorCodesIn(Top(0))
               [] OTHER                                    -> {}

\* C5: once a sub-expression has evaluated to an error, every enclosing
\* unary operator, binary operator and guard (with the error as condition
\* or as consequence) yields that same error, so the top-level result is
\* the error with the same code.
C5_ErrorsPropagate ==
    [][OperandErrors # {}
         => (/\ stack'[Len(stack')].kind = "error"
             /\ stack'[Len(stack')].code \in OperandErrors)]_vars

(***************************************************************************)
(* Properties of the entry points and of the validator.                    *)
(***************************************************************************)
Returned ==
    rr # NoRuntimeResult

ValidationOf ==
    validate_chain(src.toks, src.lits, ctx)

\* C6: when strict validation of (chain, context) fails, the evaluator is
\* never run and the call returns an error-domain result that carries the
\* validator's error code, never an undefined-domain result.
C6_ValidationFailureIsAnError ==
    (Returned /\ ~snap_stale /\ ~ValidationOf.ok)
        => (/\ ~evaluated
            /\ rr.domain = "error"
            /\ rr.code = ValidationOf.context_error)

\* C7: the provenance record of an evaluation result has neither
\* action_hash nor decision_hash when the result domain is error or
\* undefined, and exactly one of the two otherwise.
C7_ExactlyOneHashUnlessBlocked ==
    prov.built
        => IF rr.domain \in {"error", "undefined"}
           THEN prov.action_hash = NoHash /\ prov.decision_hash = NoHash
           ELSE (prov.action_hash = NoHash) # (prov.decision_hash = NoHash)

C7_Witness ==
    /\ prov.built
    /\ rr.domain = "action"
    /\ prov.action_hash # NoHash
    /\ prov.decision_hash = NoHash

\* The consequence of the guard is one action on a literal target that the
\* context defines with a value an action can take (not a boolean).
ConsequenceIsActionOnDefinedTarget ==
    LET Q == SubSeq(src.prog, src.clen + 1, Len(src.prog) - 3)
    IN  /\ Len(Q) = 2
        /\ Q[2].op = "action_event"
        /\ Q[1].op = "literal"
        /\ ctx.literals[Q[1].key] \in {"str", "actref"}

InScope(ts, i) ==
    /\ \E j \in 1..(i - 1) : ts[j] = "sek"
    /\ \E k \in (i + 1)..Len(ts) : ts[k] = "sek"

AfterKhi(ts, i) ==
    \E j \in 1..(i - 1) : ts[j] = "khi"

\* Some mek/men is neither inside a sek ... sek block nor behind a guard.
Misplaced(ts) ==
    \E i \in Positions(ts, ACTION_OPS) : ~InScope(ts, i) /\ ~AfterKhi(ts, i)

Validated ==
    verdict # NoVerdict

RejectedAsMisuse ==
    ~verdict.ok /\ verdict.action_misuse

ReportedValues(pred) ==
    {c_rich[i].value : i \in leading_edge(c_rich, now_ms, pred)}

Emitted(pred) ==
    \E l \in c_safe : l.predicate = pred

C11_EmittedValueWasReported ==
    projected
        => \A l \in c_safe :
               \E i \in Items(c_rich, now_ms, l.predicate) : c_rich[i].value = l.value

C11_Witness ==
    /\ projected
    /\ \E l \in c_safe :
           /\ l.value = "true"
           /\ \E i \in 1..Len(c_rich) :
                  /\ c_rich[i].predicate = l.predicate
                  /\ c_rich[i].value = "false"
                  /\ ~is_candidate(c_rich[i], now_ms)

\* The conditions under which a reading may count: it is not older than
\* the staleness window, not further in the future than the clock skew
\* bound, its confidence is finite and at least the threshold, and its
\* source is on the allow-list of its predicate when there is one.
Eligible(l) ==
    /\ now_ms - l.timestamp <= tau_stale_ms
    /\ l.timestamp - now_ms <= MAX_CLOCK_SKEW_MS
    /\ l.conf_kind = "finite" /\ l.confidence >= theta_thresh
    /\ auth_map[l.predicate].defined => l.source \in auth_map[l.predicate].sources

\* Reading i has a part in the decision for its predicate: it is in the
\* leading edge as the newest candidate or with a value that is compared.
Influences(i) ==
    LET pred == c_rich[i].predicate
        edge == leading_edge(c_rich, now_ms, pred)
    IN  /\ i \in edge
        /\ \/ c_rich[i].value # "nan"
           \/ c_rich[i].timestamp = Newest(c_rich, Items(c_rich, now_ms, pred))

Without(evidence, i) ==
    SubSeq(evidence, 1, i - 1) \o SubSeq(evidence, i + 1, Len(evidence))

\* C26 as stated: a reading has a part in pi_safe's decision for its
\* predicate if and only if it meets the four conditions.
C26_InfluencesExactlyWhenEligible ==
    projected => \A i \in 1..Len(c_rich) : Influences(i) <=> Eligible(c_rich[i])

\* C26: a reading is a candidate if and only if it meets the four
\* conditions; only such a reading has a part in pi_safe's decision for its
\* predicate, and the decision is the same without any reading that fails
\* one of them.  (A reading that meets them has no part when it is older
\* than the conflict window of the newest candidate.)
C26_OnlyEligibleReadingsInfluence ==
    projected
        => \A i \in 1..Len(c_rich) :
               /\ (i \in Items(c_rich, now_ms, c_rich[i].predicate)) <=> Eligible(c_rich[i])
               /\ Influences(i) => Eligible(c_rich[i])
               /\ ~Eligible(c_rich[i])
                    => c_safe = pi_safe(Without(c_rich, i), now_ms, independence_groups)

\* A reading of p from a source that is not on p's allow-list contradicts
\* the newest allowed reading, and p is promoted all the same.
C26_Witness ==
    /\ projected
    /\ \E i, j \in 1..Len(c_rich) :
           /\ c_rich[i].predicate = "p" /\ c_rich[j].predicate = "p"
           /\ c_rich[i].source = "b" /\ c_rich[j].source = "a"
           /\ c_rich[i].timestamp = NowMs /\ c_rich[j].timestamp = NowMs
           /\ c_rich[i].confidence = 95 /\ c_rich[j].confidence = 95
           /\ c_rich[i].value = "false" /\ c_rich[j].value = "true"
    /\ [predicate |-> "p", value |-> "true"] \in c_safe

(***************************************************************************)
(* Part D: the proposal hash of an action object (noe/provenance.py).  An  *)
(* action object is a dict; a key the dict does not hold has the value     *)
(* "absent".  include_outcome_in_hash is the key _include_outcome_in_hash  *)
(* and scratch is any other key with the prefix "_".  SHA-256 over the     *)
(* canonical JSON is taken as injective: the hash is the normalized        *)
(* content itself.                                                         *)
(***************************************************************************)
OUTCOME_FIELDS ==
    {"status", "verified", "audit_status", "expires_at_ms", "observed_at_ms"}

INTERNAL_KEYS ==
    {"include_outcome_in_hash", "scratch"}

\* _normalize_action on a nested action target that carries no internal
\* key: the outcome field is dropped.
normalize_target(t) ==
    IF t.kind = "action" THEN <<"action", "mek", t.name>> ELSE <<t.kind, t.name>>

\* _normalize_action: internal keys, hashes and metadata are dropped; the
\* outcome fields are dropped unless _include_outcome_in_hash is set; the
\* target is dropped when child_action_hash is present.
normalize_action(obj) ==
    LET include_outcome == obj.include_outcome_in_hash = "true"
        kept(f)         == IF include_outcome THEN obj[f] ELSE "absent"
    IN  <<obj.verb>>
          \o (IF obj.child_action_hash # <<>> THEN <<"child">> \o obj.child_action_hash
              ELSE normalize_target(obj.target))
          \o <<kept("audit_status"), kept("expires_at_ms"), kept("observed_at_ms"),
               kept("status"), kept("verified")>>

\* The first step of compute_action_hash: a nested action target gets its
\* action_hash when it has none, and the parent gets child_action_hash.
link_child(action_obj) ==
    LET target == action_obj.target
    IN  IF target.kind = "action"
        THEN LET h == IF target.action_hash = <<>>
                      THEN normalize_target(target)
                      ELSE target.action_hash
             IN  [action_obj EXCEPT !.target.action_hash = h, !.child_action_hash = h]
        ELSE action_obj

\* Fault model of the hash: the outcome fields are always hashed.
action_hash_with_outcomes(action_obj) ==
    normalize_action([link_child(action_obj) EXCEPT !.include_outcome_in_hash = "true"])

\* _check_no_floats on a normalized action: a float value is the pair
\* <<"float", digits>>.
has_float(normalized) ==
    \E i \in 1..Len(normalized) : normalized[i] = "float"

FloatNotAllowed ==
    <<"ValueError", "Floats are disallowed">>

\* canonical_json: the serialization, taken as injective on what it is
\* given; with reject_floats it raises on a float.  (NaN and the infinities,
\* which allow_nan = False refuses, are not among the values.)
canonical_json(obj, reject_floats) ==
    IF reject_floats /\ has_float(obj) THEN FloatNotAllowed ELSE obj

\* compute_action_hash on a full action object: canonical_json is called
\* without reject_floats.
action_hash_of(action_obj) ==
    canonical_json(normalize_action(link_child(action_obj)), FALSE)

Targets ==
    {[kind |-> "str", name |-> n, status |-> "absent", action_hash |-> <<>>] :
        n \in {"dia", "@door"}}
      \cup {[kind |-> "float", name |-> "1.5", status |-> "absent", action_hash |-> <<>>]}
      \cup [kind : {"action"}, name : {"dia"}, status : {"absent", "done"},
            action_hash : {<<>>, <<"h1">>}]

ActionObjects ==
    [verb : {"mek", "men"}, target : Targets, child_action_hash : {<<>>},
     status : {"absent", "pending", "completed"},
     verified : {"absent", "true"}, audit_status : {"absent", "verified"},
     observed_at_ms : {"absent", "t1"}, expires_at_ms : {"absent", "t2"},
     include_outcome_in_hash : {"absent", "true"}, scratch : {"absent", "x"}]

\* The actions that differ from a in outcome fields and internal keys only.
DifferOnlyIn(a, F) ==
    {b \in ActionObjects :
        \A f \in DOMAIN a : (f \notin F) => b[f] = a[f]}

ComputeActionHash ==
    /\ ~hashed
    /\ hash_a' = action_hash_of(act_a)
    /\ hash_b' = action_hash_of(act_b)
    /\ act_a' = link_child(act_a)
    /\ act_b' = link_child(act_b)
    /\ hashed' = TRUE
    /\ UNCHANGED <<evalVars, runVars, valVars, projVars, cmVars, sessVars>>

HashInit ==
    /\ act_a \in ActionObjects
    /\ act_b \in DifferOnlyIn(act_a, OUTCOME_FIELDS \cup INTERNAL_KEYS)
    /\ hash_a = <<>>
    /\ hash_b = <<>>
    /\ hashed = FALSE
    /\ EvalIdle
    /\ RunIdle
    /\ ValIdle
    /\ ProjIdle
    /\ CmIdle
    /\ SessIdle

HashNext ==
    ComputeActionHash

HashSpec ==
    HashInit /\ [][HashNext]_vars

\* C12 as stated: two actions that differ only in outcome fields or in
\* internal (underscore) keys have equal action hashes.
C12_OutcomeAndInternalKeysIgnored ==
    hashed => hash_a = hash_b

\* C12: two actions that differ only in outcome fields or in internal
\* (underscore) keys have equal action hashes, provided neither carries
\* the internal key _include_outcome_in_hash set to true, which makes
\* compute_action_hash count the outcome fields.
C12_OutcomeFieldsIgnoredUnlessRequested ==
    (hashed /\ act_a.include_outcome_in_hash # "true"
            /\ act_b.include_outcome_in_hash # "true")
        => hash_a = hash_b

C12_Witness ==
    /\ hashed
    /\ act_a.include_outcome_in_hash = "absent"
    /\ act_b.include_outcome_in_hash = "absent"
    /\ act_a.status = "pending" /\ act_b.status = "completed"
    /\ act_a.verified = "absent" /\ act_b.verified = "true"
    /\ act_a.scratch # act_b.scratch
    /\ act_a.target.kind = "action"
    /\ hash_a = hash_b

\* C24: hashing an action whose structure holds a floating-point value
\* fails with FloatNotAllowed instead of producing a hash.
C24_FloatRefusedByActionHash ==
    (hashed /\ act_a.target.kind = "float") => hash_a = FloatNotAllowed

(***************************************************************************)
(* Part E: the Context Manager (noe/context_manager.py).  A layer is a     *)
(* dict over two keys; the key blob holds a value too large for a shard.   *)
(* SHA-256 is taken as injective: a digest is the hashed content under a   *)
(* tag, and the hex form of a digest is the digest under another tag.      *)
(***************************************************************************)
max_shard_size ==
    2

staleness_ms ==
    1

MaxClock ==
    staleness_ms + 1

MaxOps ==
    2

BlobBytes ==
    max_shard_size + 2

Dicts ==
    [x : {"absent", "1"}, blob : {"absent", "big"}]

\* len(canonical_json(obj).encode("utf-8")), up to the fixed overhead.
canonical_size(obj) ==
    (IF obj.x = "absent" THEN 0 ELSE 1) + (IF obj.blob = "absent" THEN 0 ELSE BlobBytes)

too_large(obj) ==
    max_shard_size > 0 /\ canonical_size(obj) > max_shard_size

sha256_digest(obj) ==
    <<"sha256", obj>>

hex(digest) ==
    <<"hex", digest>>

\* The two values _hash_json_digest returns.
hash_json_digest(obj) ==
    [digest |-> sha256_digest(obj), hex |-> hex(sha256_digest(obj))]

\* _deep_merge: the overlay wins key by key.
deep_merge(base, overlay) ==
    [k \in DOMAIN base |-> IF overlay[k] = "absent" THEN base[k] ELSE overlay[k]]

\* H_total over the raw digests of the three layers.
total_hash(root_digest, domain_digest, local_digest) ==
    hex(sha256_digest(<<root_digest, domain_digest, local_digest>>))

\* Fault model of the staleness test: a snapshot is stale from the bound on.
is_stale_from_bound(now, last_local_update) ==
    now - last_local_update >= staleness_ms

\* snapshot: time_since_update > self._staleness_ms.
is_stale(now, last_local_update) ==
    now - last_local_update > staleness_ms

nonCmVars == <<evalVars, runVars, valVars, projVars, hashVars, sessVars>>

snapVars == <<snap_pc, snap_now, snap_copy, prev_ver>>

None ==
    [NoRet EXCEPT !.kind = "None"]

ContextTooLargeError ==
    [NoRet EXCEPT !.kind = "ContextTooLargeError"]

\* A fresh object the caller holds: copy.deepcopy leaves no shared part.
deepcopy(obj) ==
    [alias |-> "none", dirty |-> FALSE]

\* The time source advances.
Tick ==
    /\ clock < MaxClock
    /\ clock' = clock + 1
    /\ UNCHANGED <<root_dict_cached, domain_dict_cached, cm_local, root_hash,
                   domain_hash, last_local_update_ms, lock, ext, ret, ver,
                   snapVars, nonCmVars>>

\* snapshot, first statement: now_ms is read before the lock is taken.
SnapshotBegin ==
    /\ snap_pc = "idle"
    /\ snap_now' = clock
    /\ snap_pc' = "timed"
    /\ UNCHANGED <<root_dict_cached, domain_dict_cached, cm_local, root_hash,
                   domain_hash, last_local_update_ms, clock, lock, ext, ret, ver,
                   snap_copy, prev_ver, nonCmVars>>

\* Fault model of snapshot: the critical section is entered without the
\* lock.
SnapshotWithoutLock ==
    /\ snap_pc = "timed"
    /\ snap_pc' = "locked"
    /\ UNCHANGED <<root_dict_cached, domain_dict_cached, cm_local, root_hash,
                   domain_hash, last_local_update_ms, clock, lock, ext, ret, ver,
                   snap_now, snap_copy, prev_ver, nonCmVars>>

\* snapshot: with self._lock.
SnapshotAcquire ==
    /\ snap_pc = "timed"
    /\ lock = "free"
    /\ lock' = "snapshot"
    /\ snap_pc' = "locked"
    /\ UNCHANGED <<root_dict_cached, domain_dict_cached, cm_local, root_hash,
                   domain_hash, last_local_update_ms, clock, ext, ret, ver,
                   snap_now, snap_copy, prev_ver, nonCmVars>>

\* snapshot: the staleness test and the three deep copies.
SnapshotCopy ==
    /\ snap_pc = "locked"
    /\ snap_copy' = [root |-> root_dict_cached, domain |-> domain_dict_cached,
                     local |-> cm_local,
                     is_stale |-> is_stale(snap_now, last_local_update_ms),
                     ver |-> ver]
    /\ snap_pc' = "copied"
    /\ UNCHANGED <<root_dict_cached, domain_dict_cached, cm_local, root_hash,
                   domain_hash, last_local_update_ms, clock, lock, ext, ret, ver,
                   snap_now, prev_ver, nonCmVars>>

\* snapshot: the merge, the hash of the local copy, the cached hashes of
\* root and domain, the total hash; the lock is released on return and on
\* ContextTooLargeError alike, and the locals of the call are gone.
SnapshotReturn ==
    /\ snap_pc = "copied"
    /\ snap_pc' = "idle"
    /\ lock' = "free"
    /\ IF too_large(snap_copy.local)
       THEN /\ ret' = ContextTooLargeError
            /\ UNCHANGED <<ext, prev_ver>>
       ELSE /\ ret' = [kind |-> "snapshot",
                       root |-> snap_copy.root,
                       domain |-> snap_copy.domain,
                       local |-> snap_copy.local,
                       merged |-> deep_merge(deep_merge(deep_merge(EmptyDict, snap_copy.root),
                                                        snap_copy.domain),
                                             snap_copy.local),
                       root_hash |-> root_hash.hex,
                       domain_hash |-> domain_hash.hex,
                       local_hash |-> hash_json_digest(snap_copy.local).hex,
                       context_hash |-> total_hash(root_hash.digest, domain_hash.digest,
                                                   hash_json_digest(snap_copy.local).digest),
                       timestamp_ms |-> snap_now,
                       is_stale |-> snap_copy.is_stale,
                       ver |-> snap_copy.ver,
                       hash_ver |-> ver]
            /\ ext' = deepcopy(snap_copy.local)
            /\ prev_ver' = snap_copy.ver
    /\ snap_now' = 0
    /\ snap_copy' = NoCopy
    /\ UNCHANGED <<root_dict_cached, domain_dict_cached, cm_local, root_hash,
                   domain_hash, last_local_update_ms, clock, ver, nonCmVars>>

\* update_local: merge, size check, then the store and the time stamp.
UpdateLocal ==
    \E delta \in Dicts :
        LET new_local == deep_merge(cm_local, delta)
        IN  /\ lock = "free"
            /\ ver < MaxOps
            /\ ver' = ver + 1
            /\ ext' = deepcopy(delta)
            /\ IF too_large(new_local)
               THEN /\ ret' = ContextTooLargeError
                    /\ UNCHANGED <<cm_local, last_local_update_ms>>
               ELSE /\ cm_local' = new_local
                    /\ last_local_update_ms' = clock
                    /\ ret' = None
            /\ UNCHANGED <<root_dict_cached, domain_dict_cached, root_hash, domain_hash,
                           clock, lock, snapVars, nonCmVars>>

\* Fault model of replace_local: the caller's dict is stored as it is.
ReplaceLocalByReference ==
    \E new_local \in Dicts :
        /\ lock = "free"
        /\ ver < MaxOps
        /\ ver' = ver + 1
        /\ ext' = [alias |-> "local", dirty |-> FALSE]
        /\ cm_local' = new_local
        /\ last_local_update_ms' = clock
        /\ ret' = None
        /\ UNCHANGED <<root_dict_cached, domain_dict_cached, root_hash, domain_hash,
                       clock, lock, snapVars, nonCmVars>>

\* replace_local: a deep copy is stored; the size is not looked at.
ReplaceLocal ==
    \E new_local \in Dicts :
        /\ lock = "free"
        /\ ver < MaxOps
        /\ ver' = ver + 1
        /\ ext' = deepcopy(new_local)
        /\ cm_local' = new_local
        /\ last_local_update_ms' = clock
        /\ ret' = None
        /\ UNCHANGED <<root_dict_cached, domain_dict_cached, root_hash, domain_hash,
                       clock, lock, snapVars, nonCmVars>>

\* update_domain: the merged dict is stored before it is hashed; the hash
\* raises ContextTooLargeError and leaves the cached digest as it was.
UpdateDomain ==
    \E delta \in Dicts :
        LET domain_dict == deep_merge(domain_dict_cached, delta)
        IN  /\ lock = "free"
            /\ ver < MaxOps
            /\ ver' = ver + 1
            /\ ext' = deepcopy(delta)
            /\ domain_dict_cached' = domain_dict
            /\ IF too_large(domain_dict)
               THEN ret' = ContextTooLargeError /\ UNCHANGED domain_hash
               ELSE ret' = None /\ domain_hash' = hash_json_digest(domain_dict)
            /\ UNCHANGED <<root_dict_cached, cm_local, root_hash, last_local_update_ms,
                           clock, lock, snapVars, nonCmVars>>

\* replace_domain: as update_domain, on a deep copy of the argument.
ReplaceDomain ==
    \E new_domain \in Dicts :
        /\ lock = "free"
        /\ ver < MaxOps
        /\ ver' = ver + 1
        /\ ext' = deepcopy(new_domain)
        /\ domain_dict_cached' = new_domain
        /\ IF too_large(new_domain)
           THEN ret' = ContextTooLargeError /\ UNCHANGED domain_hash
           ELSE ret' = None /\ domain_hash' = hash_json_digest(new_domain)
        /\ UNCHANGED <<root_dict_cached, cm_local, root_hash, last_local_update_ms,
                       clock, lock, snapVars, nonCmVars>>

\* unsafe_replace_root: as replace_domain, on the root layer.
UnsafeReplaceRoot ==
    \E new_root \in Dicts :
        /\ lock = "free"
        /\ ver < MaxOps
        /\ ver' = ver + 1
        /\ ext' = deepcopy(new_root)
        /\ root_dict_cached' = new_root
        /\ IF too_large(new_root)
           THEN ret' = ContextTooLargeError /\ UNCHANGED root_hash
           ELSE ret' = None /\ root_hash' = hash_json_digest(new_root)
        /\ UNCHANGED <<domain_dict_cached, cm_local, domain_hash, last_local_update_ms,
                       clock, lock, snapVars, nonCmVars>>

\* The root, domain and local properties hand out deep copies.
ReadProperty ==
    \E layer \in {root_dict_cached, domain_dict_cached, cm_local} :
        /\ ext' = deepcopy(layer)
        /\ ext' # ext
        /\ UNCHANGED <<root_dict_cached, domain_dict_cached, cm_local, root_hash,
                       domain_hash, last_local_update_ms, clock, lock, ret, ver,
                       snapVars, nonCmVars>>

\* The caller changes, in place, the dict it passed in or was handed.
MutateExternal ==
    \E d \in Dicts :
        /\ ext.alias = "local" => d # cm_local
        /\ ext.alias = "domain" => d # domain_dict_cached
        /\ ext.alias = "root" => d # root_dict_cached
        /\ ext' = [ext EXCEPT !.dirty = TRUE]
        /\ cm_local' = IF ext.alias = "local" THEN d ELSE cm_local
        /\ domain_dict_cached' = IF ext.alias = "domain" THEN d ELSE domain_dict_cached
        /\ root_dict_cached' = IF ext.alias = "root" THEN d ELSE root_dict_cached
        /\ UNCHANGED <<root_hash, domain_hash, last_local_update_ms, clock, lock,
                       ret, ver, snapVars, nonCmVars>>

\* __init__: deep copies of the arguments; root and domain are hashed under
\* the size limit, local is not.
CmInit ==
    /\ root_dict_cached \in {d \in Dicts : ~too_large(d)}
    /\ domain_dict_cached \in {d \in Dicts : ~too_large(d)}
    /\ cm_local \in Dicts
    /\ root_hash = hash_json_digest(root_dict_cached)
    /\ domain_hash = hash_json_digest(domain_dict_cached)
    /\ last_local_update_ms = 0
    /\ clock = 0
    /\ lock = "free"
    /\ ext = deepcopy(cm_local)
    /\ ret = NoRet
    /\ snap_pc = "idle"
    /\ snap_now = 0
    /\ snap_copy = NoCopy
    /\ ver = 0
    /\ prev_ver = 0
    /\ EvalIdle
    /\ RunIdle
    /\ ValIdle
    /\ ProjIdle
    /\ HashIdle
    /\ SessIdle

CmNext ==
    \/ Tick
    \/ SnapshotBegin
    \/ SnapshotAcquire
    \/ SnapshotCopy
    \/ SnapshotReturn
    \/ UpdateLocal
    \/ ReplaceLocal
    \/ UpdateDomain
    \/ ReplaceDomain
    \/ UnsafeReplaceRoot
    \/ ReadProperty
    \/ MutateExternal

CmSpec ==
    CmInit /\ [][CmNext]_vars

(***************************************************************************)
(* Properties of the Context Manager.                                      *)
(***************************************************************************)
IsSnapshot ==
    ret.kind = "snapshot"

\* C13: a snapshot is flagged stale exactly when its time minus the time of
\* the most recent update of the local layer exceeds the staleness bound:
\* stale at bound + 1, not stale at the bound.
C13_StaleExactlyBeyondBound ==
    IsSnapshot
        => (ret.is_stale <=> (ret.timestamp_ms - last_local_update_ms > staleness_ms))

C13_Witness ==
    /\ IsSnapshot
    /\ ver > 0
    /\ ret.timestamp_ms = last_local_update_ms + staleness_ms + 1
    /\ ret.is_stale

\* C15: changing, in place, an object that was passed into the manager or
\* obtained from it changes neither the layers nor the digests the manager
\* holds, nor the snapshot a caller holds, so that every snapshot taken
\* afterwards has the contents and hashes it would have had without the
\* change.
C15_ExternalMutationLeavesManagerAlone ==
    [][MutateExternal
         => UNCHANGED <<root_dict_cached, domain_dict_cached, cm_local, root_hash,
                        domain_hash, last_local_update_ms, ret>>]_vars

\* The caller has changed the dict it passed to a mutator that succeeded, and
\* a snapshot call has since copied the layers, which are those the mutator
\* left.
C15_Witness ==
    /\ ext.dirty
    /\ ret = None
    /\ ver > 0
    /\ snap_pc = "copied"
    /\ snap_copy.ver = ver
    /\ snap_copy.local = cm_local

\* C16: every snapshot's root_hash, domain_hash and local_hash are the
\* SHA-256 of the canonical serialization of that snapshot's own root, domain
\* and local layers, and its context_hash is the SHA-256 of the concatenation
\* of those three raw digests, whatever calls succeeded or failed before.
C16_SnapshotHashesMatchLayers ==
    IsSnapshot
        => /\ ret.root_hash = hex(sha256_digest(ret.root))
           /\ ret.domain_hash = hex(sha256_digest(ret.domain))
           /\ ret.local_hash = hex(sha256_digest(ret.local))
           /\ ret.context_hash = total_hash(sha256_digest(ret.root),
                                            sha256_digest(ret.domain),
                                            sha256_digest(ret.local))

\* C17: the manager never holds a shard whose canonical byte length exceeds
\* max_shard_bytes: an operation that would store one fails with
\* ContextTooLargeError and stores nothing.
C17_NoOversizedShardHeld ==
    /\ ~too_large(root_dict_cached)
    /\ ~too_large(domain_dict_cached)
    /\ ~too_large(cm_local)

AST_CACHE_MAX_SIZE ==
    2

MaxCalls ==
    4

GRAMMAR_HASH ==
    "g1"

SessionTexts ==
    {"A", "B", "C"}

\* parser.parse: the tree of a chain text.
parse(chain_text) ==
    CASE chain_text = "A" ->
           chain(conditional(unary("shi", literal("ok")),
                             action_event("mek", literal("go"))))
      [] chain_text = "B" ->
           chain(conditional(bool_literal("true"),
                             action_event("mek", action_event("mek", literal("go")))))
      [] OTHER ->
           chain(unary("shi", literal("ok")))

cache_key(chain_text) ==
    <<GRAMMAR_HASH, chain_text>>

CacheIndex(cache, key) ==
    IF \E i \in 1..Len(cache) : cache[i].key = key
    THEN CHOOSE i \in 1..Len(cache) : cache[i].key = key
    ELSE 0

\* Fault model of a hit: the entry keeps its place.
leave_in_place(cache, i) ==
    cache

move_to_end(cache, i) ==
    SubSeq(cache, 1, i - 1) \o SubSeq(cache, i + 1, Len(cache)) \o <<cache[i]>>

\* Fault model of the cache: the key leaves out the chain text.
get_cached_ast_by_grammar_only(cache, chain_text) ==
    IF cache # <<>>
    THEN [ast |-> cache[Len(cache)].ast, cache |-> cache]
    ELSE [ast |-> parse(chain_text),
          cache |-> <<[key |-> cache_key(chain_text), ast |-> parse(chain_text)]>>]

\* _get_cached_ast: a hit moves the entry to the end and returns a copy of
\* the stored tree; a miss parses, evicts the oldest entry of a full cache
\* and stores the tree.
get_cached_ast(cache, chain_text) ==
    LET i == CacheIndex(cache, cache_key(chain_text))
    IN  IF i # 0
        THEN [ast |-> cache[i].ast, cache |-> move_to_end(cache, i)]
        ELSE LET ast  == parse(chain_text)
                 kept == IF Len(cache) >= AST_CACHE_MAX_SIZE THEN Tail(cache) ELSE cache
             IN  [ast |-> ast,
                  cache |-> Append(kept, [key |-> cache_key(chain_text), ast |-> ast])]

\* compute_context_hashes over the layers of the context.
context_hash_of(X) ==
    <<"sha256", X>>

\* The "_action_dag" the evaluator starts from: that of a deep copy of the
\* merged context, or, when the hashing of the context raised, that of the
\* caller's object itself.
eval_dag(caller) ==
    IF caller.hashable THEN EmptyDag ELSE caller.dag

\* run_noe_logic in strict mode on the caller's object: the result, the
\* cache and the caller's object after the call.
run_noe_logic_call(chain_text, caller, cache) ==
    LET X        == caller.X
        ctx_hash == IF caller.hashable THEN context_hash_of(X) ELSE NoHash
        v_result == validate_chain(parse(chain_text).toks, parse(chain_text).lits, X)
    IN  IF ~v_result.ok \/ X.stale_key
        THEN [res |-> run_noe_logic(parse(chain_text), X).res, context_hash |-> ctx_hash,
              dag_in |-> EmptyDag, cache |-> cache, caller |-> caller]
        ELSE LET hit == get_cached_ast(cache, chain_text)
                 d   == eval_dag(caller)
                 st  == visit_parse_tree(hit.ast.prog, [stack |-> <<>>, dag |-> d], X)
                 r   == wrap_domain(st.stack[Len(st.stack)])
             IN  [res |-> Result(r.domain, r.value.code, r.value),
                  context_hash |-> ctx_hash,
                  dag_in |-> d,
                  cache |-> hit.cache,
                  caller |-> IF caller.hashable THEN caller
                             ELSE [caller EXCEPT !.dag = st.dag]]

Call ==
    \E chain_text \in SessionTexts :
        LET r == run_noe_logic_call(chain_text, caller_ctx, ast_cache)
            this == [text |-> chain_text, res |-> r.res,
                     context_hash |-> r.context_hash, dag_in |-> r.dag_in]
        IN  /\ calls < MaxCalls
            /\ calls' = calls + 1
            /\ caller_ctx' = r.caller
            /\ ast_cache' = r.cache
            /\ last' = this
            /\ first' = IF first[chain_text] = NoCall
                        THEN [first EXCEPT ![chain_text] = this]
                        ELSE first
            /\ UNCHANGED <<evalVars, runVars, valVars, projVars, hashVars, cmVars,
                           th, recency>>

SessInit ==
    /\ caller_ctx \in {[X |-> x, hashable |-> h, dag |-> EmptyDag] :
                         x \in RunContexts, h \in BOOLEAN}
    /\ ast_cache = <<>>
    /\ first = [t \in SessionTexts |-> NoCall]
    /\ last = NoCall
    /\ calls = 0
    /\ th = <<>>
    /\ recency = <<>>
    /\ EvalIdle
    /\ RunIdle
    /\ ValIdle
    /\ ProjIdle
    /\ HashIdle
    /\ CmIdle

SessNext ==
    Call

SessSpec ==
    SessInit /\ [][SessNext]_vars

(***************************************************************************)
(* Properties of a session of calls.                                       *)
(***************************************************************************)
\* C18: every call on a chain text returns the domain, value, context hash
\* and action hash that the first call on that text returned, whatever
\* chains were evaluated in between and whatever the AST cache holds, and
\* they are those of an evaluation of the freshly parsed chain.
C18_RepeatedEvaluationIsIdentical ==
    calls > 0
        => /\ last.res = first[last.text].res
           /\ last.context_hash = first[last.text].context_hash
           /\ last.res = run_noe_logic(parse(last.text), caller_ctx.X).res

\* Chain A is evaluated again, to an action, after B and C were evaluated
\* and the cache lost or kept its tree.
C18_Witness ==
    /\ calls > 2
    /\ last.text = "A"
    /\ first["B"] # NoCall
    /\ first["C"] # NoCall
    /\ last.res.domain \in {"action", "list"}
    /\ NoHash \notin HashesIn(last.res.value)

\* C19: an evaluation leaves the caller's context object as it was and
\* starts from no proposal-DAG state of an earlier evaluation, and the
\* result of a call is that of the chain evaluated alone, so that two
\* evaluations give the same results in either order.
C19_EvaluationsAreIsolated ==
    /\ caller_ctx.dag = EmptyDag
    /\ last.dag_in = EmptyDag
    /\ calls > 0 => last.res = run_noe_logic(parse(last.text), caller_ctx.X).res

\* C29: an update_local, update_domain, replace_domain or
\* unsafe_replace_root call that fails leaves the layers, the cached layer
\* digests and the time of the last local update as they were before the
\* call.
C29_FailedCallChangesNothing ==
    [][((UpdateLocal \/ UpdateDomain \/ ReplaceDomain \/ UnsafeReplaceRoot)
          /\ ret' = ContextTooLargeError)
         => UNCHANGED <<root_dict_cached, domain_dict_cached, cm_local, root_hash,
                        domain_hash, last_local_update_ms>>]_vars

(***************************************************************************)
(* Part G: the AST cache under concurrent callers (_get_cached_ast,        *)
(* noe/noe_parser.py 62-94).  Each block the code runs under               *)
(* _AST_CACHE_LOCK or _PARSER_LOCK is one step.                            *)
(*   th        per thread: where it is in _get_cached_ast (pc), the chain  *)
(*             text, the tree it holds (ast), the tree as it was returned  *)
(*             (got), whether the tree it holds is the very object the     *)
(*             cache stores (alias), and whether another consumer of the   *)
(*             same key had changed its tree before the return (after_mut) *)
(*   recency   the chain texts in the order of their last insertion or hit *)
(*             under the cache lock, least recent first                    *)
(***************************************************************************)
Threads ==
    {"t1", "t2"}

NoAst ==
    [toks |-> <<>>, lits |-> {}, clen |-> 0, prog |-> <<>>]

NoThread ==
    [pc |-> "idle", text |-> "", ast |-> NoAst, got |-> NoAst,
     alias |-> FALSE, after_mut |-> FALSE]

\* What a consumer does to a tree it owns.
mutate(ast) ==
    [ast EXCEPT !.prog = <<>>]

touch(order, chain_text) ==
    SelectSeq(order, LAMBDA x : x # chain_text) \o <<chain_text>>

OtherHasMutated(t, chain_text) ==
    \E u \in Threads \ {t} :
        th[u].pc = "done" /\ th[u].text = chain_text /\ th[u].ast # th[u].got

Returned_ast(t, chain_text, ast, shared) ==
    [pc |-> "done", text |-> chain_text, ast |-> ast, got |-> ast,
     alias |-> shared, after_mut |-> OtherHasMutated(t, chain_text)]

\* First block under the cache lock: a hit moves the entry to the end and
\* returns a deep copy; a miss goes on to the parser.
Lookup(t) ==
    \E chain_text \in SessionTexts :
        LET i == CacheIndex(ast_cache, cache_key(chain_text))
        IN  /\ th[t].pc = "idle"
            /\ calls < MaxCalls
            /\ calls' = calls + 1
            /\ IF i # 0
               THEN /\ ast_cache' = move_to_end(ast_cache, i)
                    /\ recency' = touch(recency, chain_text)
                    /\ th' = [th EXCEPT ![t] =
                                Returned_ast(t, chain_text, ast_cache[i].ast, FALSE)]
               ELSE /\ th' = [th EXCEPT ![t] = [NoThread EXCEPT !.pc = "parse",
                                                                !.text = chain_text]]
                    /\ UNCHANGED <<ast_cache, recency>>
            /\ UNCHANGED <<evalVars, runVars, valVars, projVars, hashVars, cmVars,
                           caller_ctx, first, last>>

\* parser.parse under the parser lock.
Parse(t) ==
    /\ th[t].pc = "parse"
    /\ th' = [th EXCEPT ![t].pc = "insert", ![t].ast = parse(th[t].text)]
    /\ UNCHANGED <<evalVars, runVars, valVars, projVars, hashVars, cmVars,
                   caller_ctx, ast_cache, first, last, calls, recency>>

\* Fault model of the insertion: the tree that was stored is returned itself.
InsertReturningStored(t) ==
    LET chain_text == th[t].text
        i    == CacheIndex(ast_cache, cache_key(chain_text))
        kept == IF Len(ast_cache) >= AST_CACHE_MAX_SIZE THEN Tail(ast_cache) ELSE ast_cache
    IN  /\ th[t].pc = "insert"
        /\ recency' = touch(recency, chain_text)
        /\ IF i # 0
           THEN /\ ast_cache' = move_to_end(ast_cache, i)
                /\ th' = [th EXCEPT ![t] =
                            Returned_ast(t, chain_text, ast_cache[i].ast, TRUE)]
           ELSE /\ ast_cache' = Append(kept, [key |-> cache_key(chain_text),
                                              ast |-> th[t].ast])
                /\ th' = [th EXCEPT ![t] = Returned_ast(t, chain_text, th[t].ast, TRUE)]
        /\ UNCHANGED <<evalVars, runVars, valVars, projVars, hashVars, cmVars,
                       caller_ctx, first, last, calls>>

\* Second block under the cache lock: the re-check, the eviction of the
\* first entry of a full cache, the store, and the deep copy that is
\* returned.
Insert(t) ==
    LET chain_text == th[t].text
        i    == CacheIndex(ast_cache, cache_key(chain_text))
        kept == IF Len(ast_cache) >= AST_CACHE_MAX_SIZE THEN Tail(ast_cache) ELSE ast_cache
    IN  /\ th[t].pc = "insert"
        /\ recency' = touch(recency, chain_text)
        /\ IF i # 0
           THEN /\ ast_cache' = move_to_end(ast_cache, i)
                /\ th' = [th EXCEPT ![t] =
                            Returned_ast(t, chain_text, ast_cache[i].ast, FALSE)]
           ELSE /\ ast_cache' = Append(kept, [key |-> cache_key(chain_text),
                                              ast |-> th[t].ast])
                /\ th' = [th EXCEPT ![t] = Returned_ast(t, chain_text, th[t].ast, FALSE)]
        /\ UNCHANGED <<evalVars, runVars, valVars, projVars, hashVars, cmVars,
                       caller_ctx, first, last, calls>>

\* The consumer changes the tree it was handed; a tree that is the cache's
\* own object changes in the cache too.
MutateAst(t) ==
    LET i == CacheIndex(ast_cache, cache_key(th[t].text))
    IN  /\ th[t].pc = "done"
        /\ th[t].ast # mutate(th[t].ast)
        /\ th' = [th EXCEPT ![t].ast = mutate(th[t].ast)]
        /\ ast_cache' = IF th[t].alias /\ i # 0
                        THEN [ast_cache EXCEPT ![i].ast = mutate(ast_cache[i].ast)]
                        ELSE ast_cache
        /\ UNCHANGED <<evalVars, runVars, valVars, projVars, hashVars, cmVars,
                       caller_ctx, first, last, calls, recency>>

\* The consumer is done with its tree.
Drop(t) ==
    /\ th[t].pc = "done"
    /\ th' = [th EXCEPT ![t] = NoThread]
    /\ UNCHANGED <<evalVars, runVars, valVars, projVars, hashVars, cmVars,
                   caller_ctx, ast_cache, first, last, calls, recency>>

CacheInit ==
    /\ th = [t \in Threads |-> NoThread]
    /\ recency = <<>>
    /\ ast_cache = <<>>
    /\ calls = 0
    /\ caller_ctx = [X |-> NoContext, hashable |-> TRUE, dag |-> EmptyDag]
    /\ first = <<>>
    /\ last = NoCall
    /\ EvalIdle
    /\ RunIdle
    /\ ValIdle
    /\ ProjIdle
    /\ HashIdle
    /\ CmIdle

CacheNext ==
    \E t \in Threads :
        \/ Lookup(t)
        \/ Parse(t)
        \/ Insert(t)
        \/ MutateAst(t)
        \/ Drop(t)

CacheSpec ==
    CacheInit /\ [][CacheNext]_vars

(***************************************************************************)
(* Properties of the AST cache.                                            *)
(***************************************************************************)
CachedTexts ==
    {ast_cache[i].key[2] : i \in 1..Len(ast_cache)}

\* C21: the tree a lookup returns is the tree of its chain text, whatever
\* other or earlier consumers of the same key did to the trees they were
\* handed, and the cache only ever holds the unchanged tree of each key.
C21_ReturnedAstIsIndependent ==
    /\ \A t \in Threads : th[t].pc = "done" => th[t].got = parse(th[t].text)
    /\ \A i \in 1..Len(ast_cache) : ast_cache[i].ast = parse(ast_cache[i].key[2])

\* A consumer was handed the unchanged tree of a key after another consumer
\* of that key had changed its own.
C21_Witness ==
    \E t \in Threads :
        /\ th[t].pc = "done"
        /\ th[t].after_mut
        /\ th[t].got = parse(th[t].text)
        /\ OtherHasMutated(t, th[t].text)

\* C27: the cache never holds more than its maximum number of entries, and
\* an insertion into a full cache evicts the entry whose last insertion or
\* hit is the oldest.
C27_CacheIsBoundedLru ==
    /\ [](Len(ast_cache) <= AST_CACHE_MAX_SIZE)
    /\ [][(CachedTexts \ CachedTexts') # {}
            => CachedTexts \ CachedTexts'
                 = {Head(SelectSeq(recency, LAMBDA x : x \in CachedTexts))}]_vars

\* An insertion found the cache full and evicted an entry: a text that was
\* cached is cached no longer, and the cache is full again.
C27_Witness ==
    /\ Len(ast_cache) = AST_CACHE_MAX_SIZE
    /\ \E i \in 1..Len(recency) : recency[i] \notin CachedTexts
    /\ \E t \in Threads : th[t].pc = "done" /\ th[t].text = ast_cache[Len(ast_cache)].key[2]

(***************************************************************************)
(* Properties of the error priority.                                       *)
(***************************************************************************)
\* The priority number ERROR_PRIORITY gives a code.
PriorityOf(code) ==
    ErrorRank(code) \div 10

\* The priority numbers of the strict checks that fail for (c, X).
FailedPriorities(c, X) ==
    (IF \E k \in c.lits : X.literals[k] = "absent"
       THEN {PriorityOf("ERR_LITERAL_MISSING")} ELSE {})
      \cup (IF X.stale THEN {PriorityOf("ERR_CONTEXT_STALE")} ELSE {})
      \cup (IF (\E i \in 1..Len(c.toks) : c.toks[i] \in {"men", "khi"}) /\ ~X.audit
              THEN {PriorityOf("ERR_CONTEXT_INCOMPLETE")} ELSE {})
      \cup (IF action_class_rule(c.toks).flag
              THEN {PriorityOf("ERR_ACTION_MISUSE")} ELSE {})

\* C22: when strict validation of (chain, context) fails, the code that
\* run_noe_logic reports has the lowest priority number among the checks
\* that failed.
C22_LowestPriorityCodeReported ==
    (entry = "run_noe_logic" /\ rr # NoRuntimeResult /\ FailedPriorities(src, ctx) # {})
      => \A p \in FailedPriorities(src, ctx) : PriorityOf(rr.code) <= p

(***************************************************************************)
(* Part H: one finalization on a proposal DAG that already holds nodes and *)
(* edges (_finalize_action on a context that carries "_action_dag",        *)
(* noe/noe_parser.py 239-364 and 1923-1933).  stack holds the action       *)
(* object handed to the choke point and, after the call, what it returned; *)
(* dag is ctx["_action_dag"]; pos counts the call.                         *)
(***************************************************************************)
\* An action dict that carries action_hash h, as a nested or a
\* context-supplied action does.
HashedAction(h) ==
    [Blank EXCEPT !.kind = "action", !.verb = "mek", !.hash = h,
                  !.target = <<VStr("go", "value")>>]

NewAction(verb, target) ==
    [Blank EXCEPT !.kind = "action", !.verb = verb, !.target = target]

ChildHashes ==
    {<<"x">>, <<"y">>}

\* The action objects handed to the choke point.
FinalizedObjects ==
    {NewAction("mek", <<HashedAction(h)>>) : h \in ChildHashes}
      \cup {NewAction("mek", <<VStr("go", "value")>>),
            NewAction("mek", <<UNDEF_OBJ>>),
            NewAction("mek", <<UNDEF_STR>>),
            NewAction("", <<VStr("go", "value")>>),
            NewAction("mek", <<>>)}

\* The hashes a DAG is built from: the children and one finalized parent.
DagHashes ==
    ChildHashes \cup {compute_action_hash(NewAction("mek", <<HashedAction(<<"x">>)>>))}

Dags ==
    {[nodes |-> {e[1] : e \in E}, edges |-> E] : E \in SUBSET (DagHashes \X DagHashes)}

FinalizeAction ==
    LET r == finalize_action_static(stack[1], dag)
    IN  /\ pos = 0
        /\ pos' = 1
        /\ stack' = <<r.val>>
        /\ dag' = r.dag
        /\ UNCHANGED <<src, ctx, out, runVars, valVars, projVars, extVars>>

FinInit ==
    /\ stack \in {<<a>> : a \in FinalizedObjects}
    /\ dag \in Dags
    /\ pos = 0
    /\ src = chain(bool_literal("true"))
    /\ ctx = NoContext
    /\ out = NoResult
    /\ RunIdle
    /\ ValIdle
    /\ ProjIdle
    /\ ExtIdle

FinNext ==
    FinalizeAction

FinSpec ==
    FinInit /\ [][FinNext]_vars

(***************************************************************************)
(* Properties of a finalization.                                           *)
(***************************************************************************)
\* Every hash that the graph g mentions.
AllHashes(g) ==
    g.nodes \cup {e[1] : e \in g.edges} \cup {e[2] : e \in g.edges}

\* Some node reachable from node lies on a directed cycle of g.
CycleReachable(g, node) ==
    LET n == Cardinality(AllHashes(g)) + 1
    IN  \E m \in ReachFrom(g, {node}, n) : m \in ReachFrom(g, Succ(g, {m}), n)

\* The finalization got as far as the registration of its node.
Registers(a) ==
    a.kind = "action" /\ a.verb # "" /\ a.target # <<>> /\ ~is_undef(a.target[1])

\* C23: a finalization that registers its node fails with ERR_ACTION_CYCLE
\* exactly when the proposal graph reachable from that node, the new edge
\* included, contains a directed cycle.
C23_CycleExactlyWhenReachable ==
    [][(FinalizeAction /\ Registers(stack[1]))
         => ((stack'[1] = VErr("ERR_ACTION_CYCLE"))
               <=> CycleReachable(dag', compute_action_hash(stack[1])))]_vars

\* A diamond was finalized without an error: the new node reaches one node
\* along two paths and no cycle.
C23_Witness ==
    /\ pos = 1
    /\ stack[1].kind = "action"
    /\ \E m \in AllHashes(dag) :
          /\ m \in ReachFrom(dag, {stack[1].hash}, 4)
          /\ Cardinality({e \in dag.edges : e[2] = m
                             /\ e[1] \in ReachFrom(dag, {stack[1].hash}, 4)}) > 1

\* C30: a finalization that is rejected leaves the proposal DAG as it was
\* before the call.
C30_RejectedFinalizationLeavesDag ==
    [][(FinalizeAction /\ stack'[1].kind = "error") => dag' = dag]_vars

(***************************************************************************)
(* Part I: the nesting ceiling (noe/noe_runtime.py 236-246 and 364-382,    *)
(* noe/noe_validator.py 82-100 and 151-155, noe/noe_parser.py 2909-3034).  *)
(* tree is the parse tree of a chain that validate_chain accepted against  *)
(* a fresh context: a NonTerminal is a list of its children.  The two      *)
(* ceilings, 100 and 32 in the code, are scaled down and keep their order. *)
(***************************************************************************)
MAX_DEPTH ==
    12

MAX_CONTEXT_DEPTH ==
    4

MaxNesting ==
    MAX_DEPTH + 4

NonTerminal(children) ==
    [kind |-> "list", children |-> children]

\* A chain of n nested lists around a terminal, and the same with a
\* terminal sibling at every level.
RECURSIVE Nest(_)
Nest(n) ==
    IF n = 0 THEN Terminal ELSE NonTerminal(<<Nest(n - 1)>>)

RECURSIVE Comb(_)
Comb(n) ==
    IF n = 0 THEN Terminal ELSE NonTerminal(<<Terminal, Comb(n - 1)>>)

Trees ==
    {Nest(n) : n \in 0..MaxNesting} \cup {Comb(n) : n \in 1..MaxNesting}

MaxOf(S) ==
    CHOOSE x \in S : \A y \in S : y <= x

\* NoeRuntime._get_ast_depth.
RECURSIVE get_ast_depth(_)
get_ast_depth(node) ==
    IF node.kind = "list"
    THEN IF node.children = <<>> THEN 1
         ELSE 1 + MaxOf({get_ast_depth(node.children[i]) : i \in 1..Len(node.children)})
    ELSE 1

\* _check_depth.
RECURSIVE check_depth(_, _)
check_depth(obj, current_depth) ==
    IF current_depth > MAX_CONTEXT_DEPTH THEN FALSE
    ELSE IF obj.kind = "list"
    THEN \A i \in 1..Len(obj.children) : check_depth(obj.children[i], current_depth + 1)
    ELSE TRUE

validate_ast_safety(ast_node) ==
    check_depth(ast_node, 0)

\* NoeRuntime.evaluate from the parse on: the AST safety validation, the
\* recursion depth check, the evaluation.
evaluate_parsed(ast) ==
    IF ~validate_ast_safety(ast)
    THEN [ran |-> FALSE, res |-> Result("error", "ERR_SAFETY", Blank)]
    ELSE IF get_ast_depth(ast) > MAX_DEPTH
    THEN [ran |-> FALSE, res |-> Result("error", "ERR_RECURSION_LIMIT", Blank)]
    ELSE [ran |-> TRUE, res |-> Result("truth", "", VBool(TRUE))]

\* run_noe_logic from the parse on: the tree goes to the evaluator as it is.
\* overflow says that the interpreter's own recursion limit was hit in the
\* visit, which the except clause turns into ERR_PARSE_FAILED.
run_noe_logic_parsed(ast, overflow) ==
    IF overflow
    THEN [ran |-> TRUE, res |-> Result("error", "ERR_PARSE_FAILED", Blank)]
    ELSE [ran |-> TRUE, res |-> Result("truth", "", VBool(TRUE))]

EvaluateTree ==
    /\ entry = "evaluate"
    /\ rr = NoRuntimeResult
    /\ rr' = evaluate_parsed(tree).res
    /\ evaluated' = evaluate_parsed(tree).ran
    /\ parsed' = TRUE
    /\ UNCHANGED <<evalVars, entry, snap_stale, prov, tree, valVars, projVars, extVars>>

RunNoeLogicTree ==
    \E overflow \in BOOLEAN :
        /\ entry = "run_noe_logic"
        /\ rr = NoRuntimeResult
        /\ overflow => get_ast_depth(tree) > MAX_DEPTH
        /\ rr' = run_noe_logic_parsed(tree, overflow).res
        /\ evaluated' = run_noe_logic_parsed(tree, overflow).ran
        /\ parsed' = TRUE
        /\ UNCHANGED <<evalVars, entry, snap_stale, prov, tree, valVars, projVars, extVars>>

DepthInit ==
    /\ tree \in Trees
    /\ entry \in {"run_noe_logic", "evaluate"}
    /\ snap_stale = FALSE
    /\ rr = NoRuntimeResult
    /\ prov = NoProv
    /\ evaluated = FALSE
    /\ parsed = FALSE
    /\ EvalIdle
    /\ ValIdle
    /\ ProjIdle
    /\ ExtIdle

DepthNext ==
    \/ EvaluateTree
    \/ RunNoeLogicTree

DepthSpec ==
    DepthInit /\ [][DepthNext]_vars

\* C25: at every entry point a chain whose AST nesting depth exceeds the
\* ceiling yields an error result with the recursion-limit code and is not
\* evaluated.
C25_DeepChainGetsRecursionLimit ==
    (rr # NoRuntimeResult /\ get_ast_depth(tree) > MAX_DEPTH)
      => (rr.domain = "error" /\ rr.code = "ERR_RECURSION_LIMIT" /\ ~evaluated)

(***************************************************************************)
(* Part J: a quantifier applied to a list (visit_unary and _apply_unary_op *)
(* on an operand that is a list, noe/noe_parser.py 1294-1517).  src is the *)
(* chain, stack holds the operand that was visited and then the result.    *)
(***************************************************************************)
MaxItems ==
    3

RECURSIVE ListsOver(_, _)
ListsOver(S, n) ==
    IF n = 0 THEN {<<>>}
    ELSE LET L == ListsOver(S, n - 1)
         IN  L \cup {Append(l, x) : l \in {y \in L : Len(y) = n - 1}, x \in S}

VisitQuantifier ==
    /\ At("unary")
    /\ src.prog[pos + 1].arg \in Quantifiers
    /\ pos' = pos + 1
    /\ stack' = <<apply_unary_op(src.prog[pos + 1].arg, stack[1], src.prog[pos + 1].key, ctx)>>
    /\ UNCHANGED <<src, ctx, dag, out, runVars, valVars, projVars, extVars>>

QuantInit ==
    /\ src \in {chain(unary(o, literal("ok"))) : o \in Quantifiers}
    /\ ctx = CtxA
    /\ pos = 1
    /\ stack \in {<<VList(xs)>> : xs \in ListsOver({VBool(TRUE), VBool(FALSE), UNDEF_STR}, MaxItems)}
    /\ dag = EmptyDag
    /\ out = NoResult
    /\ RunIdle
    /\ ValIdle
    /\ ProjIdle
    /\ ExtIdle

QuantNext ==
    VisitQuantifier

QuantSpec ==
    QuantInit /\ [][QuantNext]_vars

\* The lists of truth values that xs can stand for: every undefined entry
\* takes either truth value.
Completions(xs) ==
    {c \in [1..Len(xs) -> BOOLEAN] : \A i \in 1..Len(xs) : xs[i].kind = "bool" => c[i] = xs[i].b}

\* The quantifier on a list of truth values.
Classical(o, c) ==
    LET n          == Len(c)
        true_count == Cardinality({i \in 1..n : c[i]})
    IN  CASE o = "eni" -> true_count > 0
          [] o = "sem" -> true_count = n
          [] o = "mun" -> 10 * true_count >= 4 * n
          [] OTHER     -> 10 * true_count <= n

\* C28: a quantifier applied to a list returns true or false only if every
\* choice of truth values for the undefined entries gives that result;
\* otherwise it returns undefined.
C28_QuantifierKeepsUndefined ==
    [][VisitQuantifier
         => (stack'[1].kind = "bool"
               => \A c \in Completions(stack[1].items) :
                      Classical(src.prog[pos + 1].arg, c) = stack'[1].b)]_vars

====
